---- MODULE Spec2Model ----
(***************************************************************************)
(* Tool invocation subsystem of chatbot-core.                              *)
(*                                                                         *)
(*   Spec         the Execution Orchestrator, useAssistantTool             *)
(*                (src/lib/hooks/useAssistantTool.ts), bound to an         *)
(*                arbitrary tool and schema.                               *)
(*   SpecAPI      the Networked Tool Adapter, useAPITool                   *)
(*                (src/unnamed/part_004), one executeAPI call at a time.   *)
(*   SpecOverlap  the adapter with overlapping executeAPI calls.           *)
(*   SpecNet      the orchestrator bound to the adapter's tool.            *)
(*   SpecAPILive  SpecAPI under a transport that answers and timers that   *)
(*                fire (weak fairness).                                    *)
(*   SpecValidate the parameter draft and validateParams().                *)
(*   SpecContext  the orchestrator with the clock and the Execution        *)
(*                Contexts its invocations build.                          *)
(*   SpecAPIAnyAttempts  SpecAPI with a negative retryAttempts among the   *)
(*                configurations.                                          *)
(*   SpecTimeout  the orchestrator bound to the adapter, under timeouts    *)
(*                configured in apiConfig and in the Execution Context.    *)
(*   SpecSearch, SpecFlow, SpecPersistence, SpecSelection                  *)
(*                the hooks useSearch, useGuidedFlow and                   *)
(*                useChatStatePersistence and the SearchResults component, *)
(*                each on its own.                                         *)
(*                                                                         *)
(* React state is modelled by its latest value: a setX(v) call is the      *)
(* assignment x' = v.  The callbacks a caller holds (execute,              *)
(* validateParams) are closures of the last render and read `rendered`,    *)
(* the params of that render; updateParam uses a functional update and     *)
(* reads the latest params.  JavaScript runs each callback to its next     *)
(* await without interleaving, so every action is one such run.            *)
(***************************************************************************)
EXTENDS Integers, Sequences, FiniteSets, TLC

(***************************************************************************)
(* Values                                                                  *)
(***************************************************************************)
Null == "null"
Undefined == "undefined"
\* A key the draft does not hold.
Absent == 0
NoField == "nofield"

\* Bound: the number of execute() calls that may be awaiting their tool at once.
MaxInflight == 2

Keys == {"x", "y"}
Vals == {1, 5}
\* Partial<TParams>: every key is absent or holds a value.
Draft == [Keys -> Vals \cup {Absent}]
EmptyDraft == [k \in Keys |-> Absent]

\* TResult values a tool can deliver as data (all truthy).
Results == {"r1", "r2"}

(***************************************************************************)
(* The schema collaborator (Schema<T>, src/lib/types/tool.ts).  The model  *)
(* fixes one validation rule (x is required, y must not be 1) and leaves   *)
(* open how the schema reports a failure:                                  *)
(*   safe  = "err"    safeParse returns {success: false, error}            *)
(*           "noerr"  safeParse returns {success: false} (error is         *)
(*                    optional in the interface)                           *)
(*           "throw"  safeParse throws                                     *)
(*   parse = "strict"  parse throws on a draft that does not conform       *)
(*           "lenient" parse returns the draft                             *)
(***************************************************************************)
Schemas == [safe : {"err", "noerr", "throw"}, parse : {"strict", "lenient"}]

\* ValidationError.errors of a draft: [{path, message, field?}, ...]
ErrorsOf(d) ==
  (IF d["x"] = Absent
     THEN << [path |-> <<"query", "x">>, field |-> NoField, message |-> "required"] >>
     ELSE << >>)
  \o
  (IF d["y"] = 1
     THEN << [path |-> <<"opts", "y">>, field |-> "y", message |-> "invalid"] >>
     ELSE << >>)

Conforms(d) == ErrorsOf(d) = << >>

\* schema.safeParse(d): what the returned object carries, or that it threw.
safeParse(s, d) ==
  IF Conforms(d) THEN [kind |-> "ok", success |-> TRUE, hasError |-> FALSE, errors |-> << >>]
  ELSE IF s.safe = "err"
    THEN [kind |-> "ret", success |-> FALSE, hasError |-> TRUE, errors |-> ErrorsOf(d)]
  ELSE IF s.safe = "noerr"
    THEN [kind |-> "ret", success |-> FALSE, hasError |-> FALSE, errors |-> << >>]
  ELSE [kind |-> "throw", success |-> FALSE, hasError |-> FALSE, errors |-> << >>]

\* schema.parse(d): the typed value, or that it threw.
parse(s, d) ==
  IF Conforms(d) \/ s.parse = "lenient"
    THEN [threw |-> FALSE, value |-> d]
    ELSE [threw |-> TRUE, value |-> d]

(***************************************************************************)
(* Orchestrator state                                                      *)
(***************************************************************************)
VARIABLES
  schema,            \* tool.parameters
  initialParams,     \* the initialParams option
  params,            \* useState: the parameter draft
  rendered,          \* params as captured by the callbacks of the last render
  result,            \* useState: TResult | null
  isExecuting,       \* useState
  error,             \* useState: Error | null (the message stands for the Error)
  validationErrors,  \* useState: Record<string,string> | null
  inflight,          \* number of execute() calls awaiting tool.execute
  last               \* what the most recent step did (bookkeeping)

\* The clock and the Execution Contexts built so far (bookkeeping, kept by
\* SpecContext only).
VARIABLES
  now,               \* Date.now(), in ms
  contexts           \* the ToolExecutionContext of each tool invocation, in order

ctxVars == << now, contexts >>

orchVars == << schema, initialParams, params, rendered, result, isExecuting, error,
               validationErrors, inflight, last, ctxVars >>

(***************************************************************************)
(* Networked Tool Adapter state (useAPITool, src/unnamed/part_004)         *)
(***************************************************************************)
VARIABLES
  apiConfig,           \* retryAttempts, retryDelay, rateLimitDelay, timeout as
                       \* configured
  lastResult,          \* useState: TResult | null
  lastError,           \* useState: Error | null (the message stands for the Error)
  isLoading,           \* useState
  abortControllerRef,  \* useRef: the AbortController of the latest call, or null
  calls,               \* the pending executeAPI calls, by slot
  ended                \* the call that ended in the most recent step (bookkeeping)

apiVars == << apiConfig, lastResult, lastError, isLoading, abortControllerRef, calls,
             ended >>

(***************************************************************************)
(* useSearch state (src/lib/hooks/useSearch.ts)                            *)
(***************************************************************************)
VARIABLES
  searchOptions,     \* the options of the hook: initialData, initialQuery, initialSort,
                     \* initialPage, pageSize
  search,            \* useState: data, query, sort, page, isSearching; and the
                     \* refresh timers pending
  searchRendered,    \* page and totalPages as captured by the callbacks of the last render
  searchBatch        \* the actions called since the last render (bookkeeping)

searchVars == << searchOptions, search, searchRendered, searchBatch >>

(***************************************************************************)
(* useGuidedFlow state (src/unnamed/part_008)                              *)
(***************************************************************************)
VARIABLES
  flowOptions,       \* the options of the hook: initialData, initialStepIndex
  flow,              \* useState: currentStepIndex, data, error
  flowRendered,      \* currentStepIndex and data as captured by the callbacks of the
                     \* last render
  flowLast           \* what the most recent action of the flow did (bookkeeping)

flowVars == << flowOptions, flow, flowRendered, flowLast >>

(***************************************************************************)
(* useChatStatePersistence state                                           *)
(* (src/lib/hooks/useChatStatePersistence.ts)                              *)
(***************************************************************************)
VARIABLES
  persistConfig,     \* the configuration: initialState, and whether there is a Storage
  storage,           \* what the Storage holds under storageKey
  chatState,         \* useState: state, hasPersistedState
  mounted            \* the effect of the first render has run

persistVars == << persistConfig, storage, chatState, mounted >>

(***************************************************************************)
(* SearchResults state (src/pages/search-example.tsx)                      *)
(***************************************************************************)
VARIABLES
  selectionProps,         \* the props of the component: getItemId
  internalSelectedItems,  \* useState: the selected items, in the order of selection
  selected                \* the positions selected and not deselected since (bookkeeping)

selectionVars == << selectionProps, internalSelectedItems, selected >>

\* The state of the hooks and components beside the tool subsystem.
uiVars == << searchVars, flowVars, persistVars, selectionVars >>

vars == << orchVars, apiVars, uiVars >>

\* What an action of one hook or component leaves alone.
besideSearch == << orchVars, apiVars, flowVars, persistVars, selectionVars >>
besideFlow == << orchVars, apiVars, searchVars, persistVars, selectionVars >>
besidePersistence == << orchVars, apiVars, searchVars, flowVars, selectionVars >>
besideSelection == << orchVars, apiVars, searchVars, flowVars, persistVars >>

\* path.join('.')
RECURSIVE join(_)
join(path) ==
  IF Len(path) = 0 THEN ""
  ELSE IF Len(path) = 1 THEN path[1]
  ELSE path[1] \o "." \o join(Tail(path))

\* result.error.errors.reduce((acc, err) => { acc[field] = err.message }, {})
RECURSIVE reduceErrors(_, _)
reduceErrors(errs, acc) ==
  IF errs = << >> THEN acc
  ELSE LET err == Head(errs)
           field == IF err.field # NoField THEN err.field ELSE join(err.path)
       IN reduceErrors(Tail(errs),
            [k \in DOMAIN acc \cup {field} |-> IF k = field THEN err.message ELSE acc[k]])

NoErrors == [k \in {} |-> ""]

\* validationErrors is null (NoValidationErrors) or holds one record.
NoValidationErrors == << >>
Some(v) == << v >>

\* validateParams(): [ok, errors] where errors is the final validationErrors.
validateParams(s, d) ==
  LET r == safeParse(s, d) IN
  IF r.kind = "throw"
    THEN [ok |-> FALSE, errors |-> Some([k \in {"_general"} |-> "schema threw"])]
  ELSE IF ~r.success /\ r.hasError
    THEN [ok |-> FALSE, errors |-> Some(reduceErrors(r.errors, NoErrors))]
  ELSE [ok |-> TRUE, errors |-> NoValidationErrors]

(***************************************************************************)
(* Bookkeeping of the most recent step (not program state).                *)
(*   ev          the operation: "updateParam", "setParams", "render",      *)
(*               "reset", "execute" (execute() up to its await or return)  *)
(*               or "settle" (execute() after its await)                   *)
(*   validated   the draft execute() handed to safeParse and parse         *)
(*   upd         <<key, value>> of an updateParam step; for an execute     *)
(*               step, that of the updateParam step right before it        *)
(*   safeFailed  safeParse returned success = false                        *)
(*   invoked     tool.execute was (had been, for settle) called            *)
(*   status      of the promise execute() returned                         *)
(*   ret         the value it resolved to                                  *)
(*   cbs         the observer callbacks the step notified, in order        *)
(*   out         for settle, what tool.execute settled to                  *)
(*   schemaCalls for execute, the calls it made on the schema, in order:   *)
(*               [fn, arg]                                                 *)
(*   handed      for execute, << v >> if it called tool.execute with v     *)
(***************************************************************************)
NoUpdate == << >>
NoOutcome == [kind |-> "none", data |-> Undefined]

Run(ev, validated, upd, safeFailed, invoked, status, ret, cbs) ==
  [ev |-> ev, validated |-> validated, upd |-> upd, safeFailed |-> safeFailed,
   invoked |-> invoked, status |-> status, ret |-> ret, cbs |-> cbs, out |-> NoOutcome,
   schemaCalls |-> << >>, handed |-> << >>]

Step(ev) == Run(ev, EmptyDraft, NoUpdate, FALSE, FALSE, "none", Undefined, << >>)

\* The update the caller made immediately before this step, if any.
PrecedingUpdate == IF last.ev = "updateParam" THEN last.upd ELSE NoUpdate

\* Error messages stored in `error`.
ErrParse == "parse threw"
ErrStart == "onExecutionStart threw"
ErrTool == "tool result error"
ErrThrown == "tool threw"
ErrComplete == "onExecutionComplete threw"

\* A TResult value that is falsy in JavaScript: the empty string.
FalsyData == ""

\* if (execResult.data)
truthy(v) == v # Undefined /\ v # FalsyData

\* What tool.execute can settle to: a ToolResult with data, error, both or
\* neither, or a rejection.
ToolOutcomes ==
  [kind : {"data"}, data : Results \cup {FalsyData}]
    \cup [kind : {"both"}, data : {"r1"}]
    \cup [kind : {"error", "neither", "throw"}, data : {Undefined}]

InitialDrafts == {EmptyDraft, [k \in Keys |-> IF k = "x" THEN 1 ELSE Absent]}

InitOrch ==
  /\ schema \in Schemas
  /\ initialParams \in InitialDrafts
  /\ params = initialParams
  /\ rendered = initialParams
  /\ result = Null
  /\ isExecuting = FALSE
  /\ error = Null
  /\ validationErrors = NoValidationErrors
  /\ inflight = 0
  /\ last = Step("none")
  /\ now = 0
  /\ contexts = << >>


(***************************************************************************)
(* Operations of useAssistantTool                                          *)
(***************************************************************************)
\* An updateParam that replaces the draft by the one field.
updateParam_replacesDraft(key, value) ==
  /\ params' = [EmptyDraft EXCEPT ![key] = value]
  /\ last' = [Step("updateParam") EXCEPT !.upd = << key, value >>]
  /\ UNCHANGED << schema, initialParams, rendered, result, isExecuting, error,
                  validationErrors, inflight >>

\* updateParam(key, value): setParams(prev => ({...prev, [key]: value}))
updateParam(key, value) ==
  /\ params' = [params EXCEPT ![key] = value]
  /\ last' = [Step("updateParam") EXCEPT !.upd = << key, value >>]
  /\ UNCHANGED << schema, initialParams, rendered, result, isExecuting, error,
                  validationErrors, inflight >>

\* setParams(draft): the raw state setter, exposed to the caller.
setParams(draft) ==
  /\ params' = draft
  /\ last' = Step("setParams")
  /\ UNCHANGED << schema, initialParams, rendered, result, isExecuting, error,
                  validationErrors, inflight >>

\* React re-renders: useCallback re-creates validateParams and execute over
\* the current params (deps [tool.parameters, params]).
render ==
  /\ rendered # params
  /\ rendered' = params
  /\ last' = Step("render")
  /\ UNCHANGED << schema, initialParams, params, result, isExecuting, error,
                  validationErrors, inflight >>

\* validateParams(), called by the caller through the callback of the last
\* render.  The try/catch spans its whole body: it always returns.
validateParamsCall ==
  LET v == validateParams(schema, rendered)
      sp == safeParse(schema, rendered)
  IN
  /\ validationErrors' = v.errors
  /\ last' = [Step("validateParams") EXCEPT
                !.validated = rendered,
                !.safeFailed = (sp.kind = "ret" /\ ~sp.success),
                !.status = "returned",
                !.ret = IF v.ok THEN "true" ELSE "false"]
  /\ UNCHANGED << schema, initialParams, params, rendered, result, isExecuting, error,
                  inflight >>

\* An execute() that goes on whatever validateParams() returned.
passes_always(v) == TRUE

\* if (!validateParams()) return undefined
passes(v) == v.ok

\* A cleanup that is skipped when the catch block itself throws.
cleanup_notOnThrow(rethrown) == rethrown

\* finally { setIsExecuting(false) }: the value of isExecuting once the
\* try statement is left; rethrown tells whether the catch block threw.
cleanup(rethrown) == FALSE

\* execute(), from the call to the await of tool.execute (or to its return).
\* startThrows / errorThrows: whether onExecutionStart / onExecutionError throw.
execute(startThrows, errorThrows) ==
  LET v == validateParams(schema, rendered)
      sp == safeParse(schema, rendered)
      p == parse(schema, rendered)
      failed == sp.kind = "ret" /\ ~sp.success
      settled == IF errorThrows THEN "rejected" ELSE "resolved"
      \* tool.parameters.safeParse(params), then tool.parameters.parse(params)
      validating == << [fn |-> "safeParse", arg |-> rendered] >>
      parsing == Append(validating, [fn |-> "parse", arg |-> rendered])
  IN
  /\ result' = Null
  /\ IF ~passes(v) THEN
       \* if (!validateParams()) return undefined
       /\ error' = Null
       /\ validationErrors' = v.errors
       /\ last' = [Run("execute", rendered, PrecedingUpdate, failed, FALSE,
                       "resolved", Undefined, << >>)
                     EXCEPT !.schemaCalls = validating]
       /\ UNCHANGED << isExecuting, inflight >>
     ELSE IF p.threw THEN
       \* setIsExecuting(true); parse throws; catch; finally
       /\ error' = ErrParse
       /\ validationErrors' = NoValidationErrors
       /\ isExecuting' = cleanup(errorThrows)
       /\ last' = [Run("execute", rendered, PrecedingUpdate, failed, FALSE,
                       settled, Undefined, << "onExecutionError" >>)
                     EXCEPT !.schemaCalls = parsing]
       /\ UNCHANGED inflight
     ELSE IF startThrows THEN
       \* onExecutionStart throws; catch; finally
       /\ error' = ErrStart
       /\ validationErrors' = NoValidationErrors
       /\ isExecuting' = cleanup(errorThrows)
       /\ last' = [Run("execute", rendered, PrecedingUpdate, failed, FALSE,
                       settled, Undefined, << "onExecutionStart", "onExecutionError" >>)
                     EXCEPT !.schemaCalls = parsing]
       /\ UNCHANGED inflight
     ELSE
       \* await tool.execute(validParams, executionContext)
       /\ inflight < MaxInflight
       /\ error' = Null
       /\ validationErrors' = NoValidationErrors
       /\ isExecuting' = TRUE
       /\ inflight' = inflight + 1
       /\ last' = [Run("execute", rendered, PrecedingUpdate, failed, TRUE,
                       "pending", Undefined, << "onExecutionStart" >>)
                     EXCEPT !.schemaCalls = parsing, !.handed = << p.value >>]
  /\ UNCHANGED << schema, initialParams, params, rendered >>

\* execute(), from the settlement of tool.execute to the end of finally.
\* completeThrows / errorThrows: whether onExecutionComplete / onExecutionError throw.
settle(out, completeThrows, errorThrows) ==
  LET settled == IF errorThrows THEN "rejected" ELSE "resolved"
      ran(status, ret, cbs) ==
        [Run("settle", EmptyDraft, NoUpdate, FALSE, TRUE, status, ret, cbs)
           EXCEPT !.out = out]
  IN
  /\ inflight > 0
  /\ inflight' = inflight - 1
  /\ isExecuting' = cleanup(errorThrows /\ (out.kind \in {"throw", "error", "both"}
                                              \/ (completeThrows /\ truthy(out.data))))
  /\ IF out.kind = "throw" THEN
       /\ error' = ErrThrown
       /\ last' = ran(settled, Undefined, << "onExecutionError" >>)
       /\ UNCHANGED result
     ELSE IF out.kind \in {"error", "both"} THEN
       \* if (execResult.error) throw new Error(execResult.error)
       /\ error' = ErrTool
       /\ last' = ran(settled, Undefined, << "onExecutionError" >>)
       /\ UNCHANGED result
     ELSE IF out.kind = "data" /\ truthy(out.data) THEN
       \* setResult(data); onExecutionComplete(data); return data
       /\ result' = out.data
       /\ IF completeThrows
            THEN /\ error' = ErrComplete
                 /\ last' = ran(settled, Undefined,
                               << "onExecutionComplete", "onExecutionError" >>)
            ELSE /\ UNCHANGED error
                 /\ last' = ran("resolved", out.data, << "onExecutionComplete" >>)
     ELSE
       \* no error and no truthy data: return undefined
       /\ last' = ran("resolved", Undefined, << >>)
       /\ UNCHANGED << result, error >>
  /\ UNCHANGED << schema, initialParams, params, rendered, validationErrors >>

\* reset() without setIsExecuting(false).
reset_keepsExecuting ==
  /\ params' = initialParams
  /\ result' = Null
  /\ error' = Null
  /\ validationErrors' = NoValidationErrors
  /\ last' = Step("reset")
  /\ UNCHANGED << schema, initialParams, rendered, inflight, isExecuting >>

\* reset()
reset ==
  /\ params' = initialParams
  /\ result' = Null
  /\ isExecuting' = FALSE
  /\ error' = Null
  /\ validationErrors' = NoValidationErrors
  /\ last' = Step("reset")
  /\ UNCHANGED << schema, initialParams, rendered, inflight >>

(***************************************************************************)
(* Execution Contexts: execute() with the context it hands to the tool.    *)
(***************************************************************************)
\* Bounds: the clock, and the tool invocations whose contexts are kept.
MaxNow == 2
MaxInvocations == 3

\* The context argument of execute(): undefined, or a Partial holding a
\* toolCallId, an abortSignal, or both (timeoutMs: << >> when not given).
ContextArgs ==
  [toolCallId : {Undefined, "tc-A"}, abortSignal : {Undefined, "signal"},
   timeoutMs : {<< >>}]

\* Context arguments that differ in timeoutMs only (ms).
TimeoutContextArgs ==
  [toolCallId : {"tc-A"}, abortSignal : {Undefined}, timeoutMs : {<< >>, << 1 >>}]

\* const executionContext = { toolCallId: context?.toolCallId ||
\*   `call-${Date.now()}`, abortSignal: context?.abortSignal, ... }
executionContext(context) ==
  [toolCallId |-> IF context.toolCallId = Undefined
                    THEN "call-" \o ToString(now)
                    ELSE context.toolCallId,
   abortSignal |-> context.abortSignal,
   timeoutMs |-> context.timeoutMs,
   generated |-> context.toolCallId = Undefined]

\* execute(context): execute(), recording the context of a tool invocation.
executeWith(context, startThrows, errorThrows) ==
  /\ Len(contexts) < MaxInvocations
  /\ execute(startThrows, errorThrows)
  /\ contexts' = IF last'.invoked THEN Append(contexts, executionContext(context))
                 ELSE contexts
  /\ UNCHANGED now

\* A millisecond passes.
tick ==
  /\ now < MaxNow
  /\ now' = now + 1
  /\ last' = Step("tick")
  /\ UNCHANGED << schema, initialParams, params, rendered, result, isExecuting, error,
                  validationErrors, inflight, contexts >>

(***************************************************************************)
(* useSearch (src/lib/hooks/useSearch.ts): filtering, sorting and paging   *)
(* of a list.                                                              *)
(*                                                                         *)
(* The actions a caller holds are closures of the last render: goToPage    *)
(* reads the totalPages of that render, nextPage and prevPage its page and *)
(* totalPages (searchRendered); setPage(prev => ...) reads the latest      *)
(* page.  searchRender is a render followed by its effect.                 *)
(***************************************************************************)
\* Bounds: the items of a list, the actions called between two renders, and
\* the refresh timers pending at once.
MaxItems == 5
MaxBatch == 3
MaxTimers == 1

\* An item is known by its id, 1..MaxItems.
AllItems == [i \in 1..MaxItems |-> i]
FewItems == << 3, 1 >>
DataSets == {AllItems, FewItems}

Queries == {"", "app"}
DefaultSort == [key |-> "id", direction |-> "asc"]
Sorts == {DefaultSort, [key |-> "name", direction |-> "desc"]}
\* The arguments of goToPage: below the range, inside it, and above it.
PageArgs == {0, 2, 4}

\* effectiveSearchPredicate(item, query): an empty query matches every item;
\* "app" is found in the fields of item 1 only.
effectiveSearchPredicate(item, query) == query = "" \/ (query = "app" /\ item = 1)

\* data.filter(item => effectiveSearchPredicate(item, query))
filteredItems(data, query) ==
  SelectSeq(data, LAMBDA item : effectiveSearchPredicate(item, query))

\* The rank of String(item[key] || '') under localeCompare: ids in numeric
\* order; by name, the items with an odd id come before those with an even id.
SortRank(item, key) ==
  IF key = "id" \/ item % 2 = 1 THEN item ELSE MaxItems + item

\* (a, b) => direction === 'asc' ? compareResult : -compareResult
compare(a, b, sort) ==
  IF sort.direction = "asc" THEN SortRank(a, sort.key) - SortRank(b, sort.key)
  ELSE SortRank(b, sort.key) - SortRank(a, sort.key)

\* Insert item into a sorted list, after the items it does not precede.
RECURSIVE insertSorted(_, _, _)
insertSorted(item, items, sort) ==
  IF items = << >> THEN << item >>
  ELSE IF compare(item, Head(items), sort) < 0 THEN << item >> \o items
  ELSE << Head(items) >> \o insertSorted(item, Tail(items), sort)

\* [...filteredItems].sort(...)
RECURSIVE sortedItems(_, _)
sortedItems(items, sort) ==
  IF items = << >> THEN << >>
  ELSE insertSorted(items[Len(items)], sortedItems(SubSeq(items, 1, Len(items) - 1), sort),
                    sort)

\* Math.max(1, Math.ceil(sortedItems.length / pageSize))
totalPages(st, pageSize) ==
  LET n == Len(sortedItems(filteredItems(st.data, st.query), st.sort))
      pages == (n + pageSize - 1) \div pageSize
  IN IF pages < 1 THEN 1 ELSE pages

\* What the callbacks of a render capture.
Captured(st) == [page |-> st.page, totalPages |-> totalPages(st, searchOptions.pageSize)]

SearchOptions ==
  [initialData : {AllItems}, initialQuery : Queries, initialSort : {DefaultSort},
   initialPage : {1, 3}, pageSize : {2}]

\* One action of a batch (bookkeeping).
Act(op) == [op |-> op, query |-> "", sort |-> DefaultSort, page |-> 0]

\* useSearch(options): the hook after its first render, the effect of that
\* render still to run.
useSearch(options) ==
  /\ searchOptions = options
  /\ search = [data |-> options.initialData, query |-> options.initialQuery,
               sort |-> options.initialSort, page |-> options.initialPage,
               isSearching |-> FALSE, timers |-> 0]
  /\ searchRendered = Captured(search)
  /\ searchBatch = [acts |-> << >>, flushed |-> FALSE]

\* The caller calls an action: it joins the batch of the current render.
called(act) ==
  /\ searchBatch.flushed \/ Len(searchBatch.acts) < MaxBatch
  /\ searchBatch' = [acts |-> IF searchBatch.flushed THEN << act >>
                               ELSE Append(searchBatch.acts, act),
                     flushed |-> FALSE]
  /\ UNCHANGED << searchOptions, searchRendered >>

\* setQuery(query)
setQuery(query) ==
  /\ search' = [search EXCEPT !.query = query]
  /\ called([Act("setQuery") EXCEPT !.query = query])

\* handleSetSort(key, direction): setSort({key, direction})
handleSetSort(key, direction) ==
  /\ search' = [search EXCEPT !.sort = [key |-> key, direction |-> direction]]
  /\ called([Act("setSort") EXCEPT !.sort = [key |-> key, direction |-> direction]])

\* goToPage(newPage): setPage(Math.max(1, Math.min(newPage, totalPages)))
goToPage(newPage) ==
  LET capped == IF newPage < searchRendered.totalPages THEN newPage
                ELSE searchRendered.totalPages
      clampedPage == IF capped > 1 THEN capped ELSE 1
  IN
  /\ search' = [search EXCEPT !.page = clampedPage]
  /\ called([Act("goToPage") EXCEPT !.page = newPage])

\* nextPage(): if (page < totalPages) setPage(prev => prev + 1)
nextPage ==
  /\ search' = IF searchRendered.page < searchRendered.totalPages
                 THEN [search EXCEPT !.page = @ + 1] ELSE search
  /\ called(Act("nextPage"))

\* prevPage(): if (page > 1) setPage(prev => prev - 1)
prevPage ==
  /\ search' = IF searchRendered.page > 1 THEN [search EXCEPT !.page = @ - 1] ELSE search
  /\ called(Act("prevPage"))

\* refresh(newData): newData is << >> when the argument is omitted.
refresh(newData) ==
  /\ search.timers < MaxTimers
  /\ search' = [search EXCEPT !.isSearching = TRUE,
                              !.data = IF newData = << >> THEN @ ELSE newData[1],
                              !.timers = @ + 1]
  /\ called(Act("refresh"))

\* The timer of a refresh fires: setIsSearching(false)
refreshTimer ==
  /\ search.timers > 0
  /\ search' = [search EXCEPT !.isSearching = FALSE, !.timers = @ - 1]
  /\ UNCHANGED << searchOptions, searchRendered, searchBatch >>

\* reset() of useSearch
resetSearch ==
  /\ search' = [search EXCEPT !.query = searchOptions.initialQuery,
                              !.sort = searchOptions.initialSort,
                              !.page = searchOptions.initialPage,
                              !.data = searchOptions.initialData]
  /\ called(Act("reset"))

\* React re-renders the hook and runs its effect:
\* if (page > totalPages) setPage(totalPages)
searchRender ==
  /\ ~searchBatch.flushed \/ searchRendered # Captured(search)
  /\ searchRendered' = Captured(search)
  /\ search' = IF search.page > searchRendered'.totalPages
                 THEN [search EXCEPT !.page = searchRendered'.totalPages] ELSE search
  /\ searchBatch' = [searchBatch EXCEPT !.flushed = TRUE]
  /\ UNCHANGED searchOptions

\* Every render and effect has run: the callbacks see the current state.
SearchSettled == searchBatch.flushed /\ searchRendered = Captured(search)

(***************************************************************************)
(* useGuidedFlow (src/unnamed/part_008; src/unnamed/part_007 is the same   *)
(* hook without initialStepIndex): a multi-step flow.                      *)
(*                                                                         *)
(* validateCurrentStep, goToNextStep and goToPreviousStep are closures of  *)
(* the last render and read its currentStepIndex and data (flowRendered);  *)
(* setCurrentStepIndex(prev => ...) and setData(prev => ...) read the      *)
(* latest state.                                                           *)
(***************************************************************************)
\* Bounds: steps.length, and how far below 0 the model follows
\* currentStepIndex.
MaxSteps == 3
MaxUnderflow == 2

totalSteps == MaxSteps
FlowKeys == {"name", "email"}
\* Partial<T>: a field is "" until it is filled in.
FlowData == [FlowKeys -> {"", "v"}]
EmptyFlowData == [k \in FlowKeys |-> ""]
\* The arguments of updateData: one field, filled in or emptied.
FlowUpdates == UNION {[{k} -> {"", "v"}] : k \in FlowKeys}
\* The arguments of goToStep.
StepArgs == -1..totalSteps

\* steps[index].validate?.(data): the first step requires name, the last
\* one email, and the steps between them have no validate function.
\* Returns the error message, or undefined.
validate(index, data) ==
  IF index = 0 /\ data["name"] = "" THEN "name is required"
  ELSE IF index = totalSteps - 1 /\ data["email"] = "" THEN "email is required"
  ELSE Undefined

FlowOptions == [initialData : {EmptyFlowData}, initialStepIndex : 0..(totalSteps - 1)]

\* Bookkeeping of the most recent action of the flow.
\*   ev      the action
\*   ret     what it returned ("true", "false", or Undefined for void)
\*   valid   for goToNextStep and complete, whether validate passed
\*   before  currentStepIndex before the action
\*   calls   the actions called since the last render
FlowStep(ev, ret, valid) ==
  [ev |-> ev, ret |-> ret, valid |-> valid, before |-> flow.currentStepIndex,
   calls |-> IF flowLast.ev = "render" THEN 1 ELSE flowLast.calls + 1]

\* useGuidedFlow(options): the hook after its first render.
useGuidedFlow(options) ==
  /\ flowOptions = options
  /\ flow = [currentStepIndex |-> options.initialStepIndex, data |-> options.initialData,
             error |-> Undefined]
  /\ flowRendered = [currentStepIndex |-> options.initialStepIndex,
                     data |-> options.initialData]
  /\ flowLast = [ev |-> "render", ret |-> Undefined, valid |-> FALSE,
                 before |-> options.initialStepIndex, calls |-> 0]

\* The current render has room for one more call.
InBatch == flowLast.ev = "render" \/ flowLast.calls < MaxBatch

\* const isFirstStep / isLastStep / currentStep of the last render
isFirstStep == flowRendered.currentStepIndex = 0
isLastStep == flowRendered.currentStepIndex = totalSteps - 1
hasCurrentStep == flowRendered.currentStepIndex \in 0..(totalSteps - 1)

\* updateData(newData)
updateData(newData) ==
  /\ InBatch
  /\ flow' = [flow EXCEPT
                !.data = [k \in FlowKeys |-> IF k \in DOMAIN newData THEN newData[k] ELSE @[k]],
                !.error = Undefined]
  /\ flowLast' = FlowStep("updateData", Undefined, FALSE)
  /\ UNCHANGED << flowOptions, flowRendered >>

\* validateCurrentStep(): the validation message of the rendered step on the
\* rendered data (undefined when it passes).
validateCurrentStep == validate(flowRendered.currentStepIndex, flowRendered.data)

\* goToNextStep()
goToNextStep ==
  LET validation == validateCurrentStep IN
  /\ InBatch
  /\ IF ~hasCurrentStep THEN
       \* currentStep is undefined: currentStep.validate throws a TypeError
       /\ flow' = flow
       /\ flowLast' = FlowStep("goToNextStep", "threw", FALSE)
     ELSE IF validation # Undefined THEN
       \* setError(validation); return false
       /\ flow' = [flow EXCEPT !.error = validation]
       /\ flowLast' = FlowStep("goToNextStep", "false", FALSE)
     ELSE IF ~isLastStep THEN
       \* setError(undefined); setCurrentStepIndex(prev => prev + 1); return true
       /\ flow' = [flow EXCEPT !.error = Undefined, !.currentStepIndex = @ + 1]
       /\ flowLast' = FlowStep("goToNextStep", "true", TRUE)
     ELSE
       \* setError(undefined); return false
       /\ flow' = [flow EXCEPT !.error = Undefined]
       /\ flowLast' = FlowStep("goToNextStep", "false", TRUE)
  /\ UNCHANGED << flowOptions, flowRendered >>

\* goToPreviousStep()
goToPreviousStep ==
  /\ InBatch
  /\ flow.currentStepIndex > -MaxUnderflow
  /\ flow' = IF ~isFirstStep
               THEN [flow EXCEPT !.currentStepIndex = @ - 1, !.error = Undefined]
               ELSE flow
  /\ flowLast' = FlowStep("goToPreviousStep", Undefined, FALSE)
  /\ UNCHANGED << flowOptions, flowRendered >>

\* goToStep(index)
goToStep(index) ==
  /\ InBatch
  /\ flow' = IF index >= 0 /\ index < totalSteps
               THEN [flow EXCEPT !.currentStepIndex = index, !.error = Undefined]
               ELSE flow
  /\ flowLast' = FlowStep("goToStep", Undefined, FALSE)
  /\ UNCHANGED << flowOptions, flowRendered >>

\* reset() (resetFlow() in part_007)
resetFlow ==
  /\ InBatch
  /\ flow' = [currentStepIndex |-> flowOptions.initialStepIndex,
              data |-> flowOptions.initialData, error |-> Undefined]
  /\ flowLast' = FlowStep("reset", Undefined, FALSE)
  /\ UNCHANGED << flowOptions, flowRendered >>

\* complete(): validates the current step, then every step, and calls
\* onComplete if all pass.
complete ==
  LET validation == validateCurrentStep
      isComplete == \A i \in 0..(totalSteps - 1) : validate(i, flowRendered.data) = Undefined
  IN
  /\ InBatch
  /\ IF ~hasCurrentStep THEN
       \* currentStep is undefined: currentStep.validate throws a TypeError
       /\ flow' = flow
       /\ flowLast' = FlowStep("complete", "threw", FALSE)
     ELSE
       /\ flow' = [flow EXCEPT !.error = validation]
       /\ flowLast' = FlowStep("complete",
                               IF validation = Undefined /\ isComplete THEN "true"
                               ELSE "false",
                               validation = Undefined)
  /\ UNCHANGED << flowOptions, flowRendered >>

\* React re-renders the hook: the callbacks capture the current state.
flowRender ==
  /\ flowLast.ev # "render"
  /\ flowRendered' = [currentStepIndex |-> flow.currentStepIndex, data |-> flow.data]
  /\ flowLast' = [ev |-> "render", ret |-> Undefined, valid |-> FALSE,
                  before |-> flow.currentStepIndex, calls |-> 0]
  /\ UNCHANGED << flowOptions, flow >>

\* The hook in a component that never calls its actions.
FlowUnused ==
  useGuidedFlow([initialData |-> EmptyFlowData, initialStepIndex |-> 0])

(***************************************************************************)
(* useChatStatePersistence (src/lib/hooks/useChatStatePersistence.ts): a   *)
(* state value mirrored into a Storage under one key.                      *)
(***************************************************************************)
\* The values of T, and the text JSON.stringify gives for each.
ChatStates == {"s0", "s1", "s2", "s3", "s4"}
JSONstringify(value) == "\"" \o value \o "\""

\* JSON.parse(text): the value, or that it threw a SyntaxError.
JSONparse(text) ==
  IF \E value \in ChatStates : JSONstringify(value) = text
    THEN [threw |-> FALSE, value |-> CHOOSE value \in ChatStates : JSONstringify(value) = text]
    ELSE [threw |-> TRUE, value |-> Undefined]

\* storage.getItem(storageKey): null (NoEntry) or << text >>.
NoEntry == << >>
\* What the Storage may hold under the key when the hook mounts: nothing, a
\* persisted value, an empty string, or text that is not JSON.
StoredEntries ==
  {NoEntry, << "" >>, << "{not json" >>} \cup {<< JSONstringify(value) >> : value \in ChatStates}

\* The configuration: initialState, and whether there is a Storage (false
\* for storage: null).
PersistenceConfigs == [initialState : {"s0", "s1"}, storage : BOOLEAN]

\* getInitialState()
getInitialState(config, entry) ==
  IF ~config.storage THEN config.initialState
  ELSE IF entry # NoEntry /\ entry[1] # "" /\ ~JSONparse(entry[1]).threw
    THEN JSONparse(entry[1]).value
    ELSE config.initialState

\* useChatStatePersistence(config): the hook after its first render, over a
\* Storage holding entry under the key; the existence effect has not run.
useChatStatePersistence(config, entry) ==
  /\ persistConfig = config
  /\ storage = entry
  /\ chatState = [state |-> getInitialState(config, entry), hasPersistedState |-> FALSE]
  /\ mounted = FALSE

\* useEffect: setHasPersistedState(storage.getItem(storageKey) !== null)
existenceEffect ==
  /\ ~mounted
  /\ mounted' = TRUE
  /\ chatState' = IF persistConfig.storage
                    THEN [chatState EXCEPT !.hasPersistedState = (storage # NoEntry)]
                    ELSE chatState
  /\ UNCHANGED << persistConfig, storage >>

\* The updater functions a caller may pass to setState.
Updaters == {"next"}
applyUpdater(prev) ==
  IF prev = "s0" THEN "s1" ELSE IF prev = "s1" THEN "s2" ELSE IF prev = "s2" THEN "s3"
  ELSE IF prev = "s3" THEN "s4" ELSE "s0"

\* setState(newState): newState is a value of T or an updater.
\* setItemThrows: whether storage.setItem throws (quota exceeded).
setState(newState, setItemThrows) ==
  LET nextState == IF newState \in Updaters THEN applyUpdater(chatState.state)
                   ELSE newState
      stored == persistConfig.storage /\ ~setItemThrows
  IN
  /\ mounted
  /\ storage' = IF stored THEN << JSONstringify(nextState) >> ELSE storage
  /\ chatState' = [state |-> nextState,
                   hasPersistedState |-> IF stored THEN TRUE
                                         ELSE chatState.hasPersistedState]
  /\ UNCHANGED << persistConfig, mounted >>

\* resetState()
resetState(setItemThrows) ==
  /\ mounted
  /\ chatState' = [chatState EXCEPT !.state = persistConfig.initialState]
  /\ storage' = IF persistConfig.storage /\ ~setItemThrows
                  THEN << JSONstringify(persistConfig.initialState) >>
                  ELSE storage
  /\ UNCHANGED << persistConfig, mounted >>

\* clearState()
\* removeItemThrows: whether storage.removeItem throws.
clearState(removeItemThrows) ==
  LET removed == persistConfig.storage /\ ~removeItemThrows IN
  /\ mounted
  /\ storage' = IF removed THEN NoEntry ELSE storage
  /\ chatState' = [state |-> persistConfig.initialState,
                   hasPersistedState |-> IF removed THEN FALSE
                                         ELSE chatState.hasPersistedState]
  /\ UNCHANGED << persistConfig, mounted >>

\* The hook in a component that never calls its actions, without a Storage.
PersistenceUnused ==
  /\ useChatStatePersistence([initialState |-> "s0", storage |-> FALSE], NoEntry)

(***************************************************************************)
(* SearchResults (src/pages/search-example.tsx): the selection of result   *)
(* items, kept in internalSelectedItems (a caller that passes              *)
(* onSelectionChange and stores what it receives keeps the same list in    *)
(* selectedItems).  Every handler runs in an event of its own, after the   *)
(* render of the one before.                                               *)
(***************************************************************************)
\* Bound: the length of the selection list.
MaxSelected == 3

\* The results prop: items with distinct ids, at the indices 0, 1, 2.
results == << [id |-> "a"], [id |-> "b"], [id |-> "c"] >>
\* The index of the item at position i of a list (JavaScript counts from 0).
IndexOf(i) == i - 1

\* The getItemId prop: omitted (the default, by index) or item => item.id.
SelectionProps == [getItemId : {"index", "id"}]

\* getItemId(item, index)
getItemId(item, index) ==
  IF selectionProps.getItemId = "index" THEN << index >> ELSE << item.id >>

\* isItemSelected(item, index)
isItemSelected(item, index) ==
  LET itemId == getItemId(item, index) IN
  \E selectedIndex \in DOMAIN internalSelectedItems :
    getItemId(internalSelectedItems[selectedIndex], IndexOf(selectedIndex)) = itemId

\* effectiveSelectedItems.filter((selectedItem, selectedIndex) =>
\*   getItemId(selectedItem, selectedIndex) !== itemId), on items[from..]
RECURSIVE withoutItem(_, _, _)
withoutItem(items, from, itemId) ==
  IF from > Len(items) THEN << >>
  ELSE (IF getItemId(items[from], IndexOf(from)) # itemId THEN << items[from] >> ELSE << >>)
         \o withoutItem(items, from + 1, itemId)

\* SearchResults(props): the component after its first render.
SearchResults(props) ==
  /\ selectionProps = props
  /\ internalSelectedItems = << >>
  /\ selected = {}

\* handleItemSelect(item, index, selected) for the item at position i of
\* results.  `selected` (bookkeeping) holds the positions selected and not
\* deselected since.
handleItemSelect(i, select) ==
  LET item == results[i]
      index == IndexOf(i)
  IN
  /\ select => Len(internalSelectedItems) < MaxSelected
  /\ internalSelectedItems' =
       IF select THEN Append(internalSelectedItems, item)
       ELSE withoutItem(internalSelectedItems, 1, getItemId(item, index))
  /\ selected' = IF select THEN selected \cup {i} ELSE selected \ {i}
  /\ UNCHANGED selectionProps

\* handleSelectAll()
handleSelectAll ==
  /\ internalSelectedItems' = results
  /\ selected' = DOMAIN results
  /\ UNCHANGED selectionProps

\* handleDeselectAll()
handleDeselectAll ==
  /\ internalSelectedItems' = << >>
  /\ selected' = {}
  /\ UNCHANGED selectionProps

\* The component with nothing selected.
SelectionUnused == SearchResults([getItemId |-> "index"])

\* The tool subsystem before any use, under one schema and configuration.
ToolsUnused ==
  /\ InitOrch
  /\ schema = [safe |-> "err", parse |-> "strict"]
  /\ initialParams = EmptyDraft

\* The hook in a component that never calls its actions.
SearchUnused ==
  useSearch([initialData |-> AllItems, initialQuery |-> "", initialSort |-> DefaultSort,
             initialPage |-> 1, pageSize |-> 2])

UIUnused == SearchUnused /\ FlowUnused /\ PersistenceUnused /\ SelectionUnused

(***************************************************************************)
(* Networked Tool Adapter: useAPITool (src/unnamed/part_004)               *)
(*                                                                         *)
(* A configured option is << >> when absent and << v >> when set.          *)
(***************************************************************************)
\* Bounds: executeAPI calls of one adapter instance pending at once, the
\* largest configured retryAttempts, and the 429 responses the transport
\* gives one call.
MaxCalls == 2
MaxRetryAttempts == 2
MaxRateLimits == 2

\* Configurations: retryAttempts, retryDelay (ms), rateLimitDelay (ms).
RetryAttemptsOptions == {<< >>} \cup {<< n >> : n \in 0..MaxRetryAttempts}
\* retryDelay and rateLimitDelay are read by different branches of the loop:
\* the model configures them together (both absent, both 0, or 100 and 3000).
DelayOptions ==
  { [retryDelay |-> << >>, rateLimitDelay |-> << >>],
    [retryDelay |-> << 0 >>, rateLimitDelay |-> << 0 >>],
    [retryDelay |-> << 100 >>, rateLimitDelay |-> << 3000 >>] }

\* JavaScript's `option || fallback` on a number: 0 and undefined are falsy.
OrElse(option, fallback) ==
  IF option = << >> \/ option[1] = 0 THEN fallback ELSE option[1]

DefaultRetryDelay == 1000
DefaultRateLimitDelay == 5000

\* const maxRetries = apiConfig.retryAttempts || 0
maxRetries == OrElse(apiConfig.retryAttempts, 0)
\* const retryDelay = apiConfig.retryDelay || 1000
retryDelay == OrElse(apiConfig.retryDelay, DefaultRetryDelay)

\* The retry-after header of a 429 response: absent, or a number of seconds.
RetryAfterHeaders == {<< >>, << 0 >>, << 2 >>}

\* parseInt(response.headers.get('retry-after') || '0', 10) * 1000
retryAfter(header) == (IF header = << >> THEN 0 ELSE header[1]) * 1000

\* const delay = retryAfter || apiConfig.rateLimitDelay || 5000
rateLimitWait(header) ==
  IF retryAfter(header) # 0 THEN retryAfter(header)
  ELSE OrElse(apiConfig.rateLimitDelay, DefaultRateLimitDelay)

\* Errors (the message stands for the Error object).
AbortError == "AbortError"
\* What fetch rejects with when a time limit on its signal runs out.
TimeoutError == "TimeoutError"
ErrStatus == "API error: 500"
ErrNetwork == "fetch failed"
ErrJson == "invalid JSON"
ErrTransform == "responseToResult threw"
ErrObserver == "observer threw"
ErrRequest == "paramsToRequest threw"
ErrUnexpected == "Unexpected error in API call"
\* A thrown value that is not an Error.
NonError == "thrown string"

\* What responseToResult can return to the call in slot c: a value of
\* TResult, which may be undefined.
TransformResults(c) == {"result " \o ToString(c), Undefined}

\* abortControllerRef.current: null, the controller of the pending call in
\* slot c, or a controller whose call has ended.
NullRef == << >>
RefTo(c) == << c >>
EndedRef == << 0 >>

(***************************************************************************)
(* One executeAPI call: its position in the code and its loop counter,     *)
(* then bookkeeping of what it did.                                        *)
(*   pc          "idle" (no call in the slot), "fetch" (awaiting fetch),   *)
(*               "json" (awaiting response.json()), "rlwait" / "backoff"   *)
(*               (awaiting a timer), "done"                                *)
(*   attempt     the loop's attempt counter                                *)
(*   aborted     the signal of the call's AbortController is aborted       *)
(*   ctxAborted  the abortSignal of the Execution Context is aborted       *)
(*   late        a request or an onRetry notification was made after       *)
(*               ctxAborted                                                *)
(*   requests    fetch calls issued                                        *)
(*   n429, nErr  rate-limit responses / failed fetches (an error status    *)
(*               or a rejection) received                                  *)
(*   nBad        ok responses whose body response.json() rejected          *)
(*   retries     the attempt numbers passed to onRetry, in order           *)
(*   backoffs    the backoff waits (ms), in order                          *)
(*   hint        the retry-after header of the 429 being waited out        *)
(*   rlWait      the rate-limit wait (ms) in progress, 0 if none           *)
(*   rlNotified  the duration (ms) passed to onRateLimit for that wait     *)
(*   deadline    << ms >> if the requests of the call run under a time     *)
(*               limit, << >> if under none                                *)
(*   onErrors    onError notifications                                     *)
(*   threw       a caller-supplied function threw in this call             *)
(*   outcome     "pending", "returned", or "raised"                        *)
(*   value       the value returned / the error raised                     *)
(***************************************************************************)
Idle ==
  [pc |-> "idle", attempt |-> 0, aborted |-> FALSE, ctxAborted |-> FALSE,
   late |-> FALSE, requests |-> 0, n429 |-> 0, nErr |-> 0, nBad |-> 0,
   retries |-> << >>, backoffs |-> << >>, hint |-> << >>, rlWait |-> 0,
   rlNotified |-> 0, deadline |-> << >>,
   onErrors |-> 0, threw |-> FALSE,
   outcome |-> "pending", value |-> Undefined]

\* fetch(url, fetchOptions) is called.
issueFetch(call) ==
  [call EXCEPT !.pc = "fetch", !.requests = @ + 1, !.late = @ \/ call.ctxAborted,
               !.hint = << >>, !.rlWait = 0, !.rlNotified = 0]

returns(call, value) ==
  [call EXCEPT !.pc = "done", !.outcome = "returned", !.value = value]

raises(call, err) ==
  [call EXCEPT !.pc = "done", !.outcome = "raised", !.value = err]

\* A backoff that does not grow with the attempt number.
backoffConstant(attempt) == retryDelay

\* setTimeout(resolve, retryDelay * attempt)
backoff(attempt) == retryDelay * attempt

\* The budget test off by one: it gives up one retry early.
exhaustedEarly(attempt) == attempt >= maxRetries

\* if (attempt > maxRetries)
exhausted(attempt) == attempt > maxRetries

\* A catch block that treats a cancellation like any other error.
isAbortError_never(err) == FALSE

\* if (error instanceof Error && error.name === 'AbortError')
isAbortError(err) == err = AbortError

\* The catch block of the retry loop, entered with error err while the state
\* holds lastError = le and isLoading = il.  observerThrows: whether the
\* observer it notifies (onError or onRetry) throws.
\* Yields the call and the two state values it leaves.
catchBlock(call, err, observerThrows, le, il) ==
  IF isAbortError(err) THEN
    \* setIsLoading(false); throw error
    [call |-> raises(call, err), lastError |-> le, isLoading |-> FALSE]
  ELSE
    LET attempt == call.attempt + 1
        c1 == [call EXCEPT !.attempt = attempt]
    IN
    IF exhausted(attempt) THEN
      \* setLastError(finalError); setIsLoading(false); onError; throw
      [call |-> [raises(c1, IF observerThrows THEN ErrObserver ELSE err)
                   EXCEPT !.onErrors = @ + 1, !.threw = @ \/ observerThrows],
       lastError |-> err, isLoading |-> FALSE]
    ELSE
      LET c2 == [c1 EXCEPT !.retries = Append(@, attempt), !.late = @ \/ call.ctxAborted] IN
      IF observerThrows THEN
        \* onRetry throws out of the catch block
        [call |-> [raises(c2, ErrObserver) EXCEPT !.threw = TRUE],
         lastError |-> le, isLoading |-> il]
      ELSE
        \* await new Promise(resolve => setTimeout(resolve, retryDelay * attempt))
        [call |-> [c2 EXCEPT !.pc = "backoff", !.backoffs = Append(@, backoff(attempt))],
         lastError |-> le, isLoading |-> il]

\* The call in slot c moves on to `call`; a call that is done leaves its slot.
Advance(c, call) ==
  IF call.pc = "done"
    THEN /\ calls' = [calls EXCEPT ![c] = Idle]
         /\ ended' = call
         /\ abortControllerRef' =
              IF abortControllerRef = RefTo(c) THEN EndedRef ELSE abortControllerRef
    ELSE /\ calls' = [calls EXCEPT ![c] = call]
         /\ ended' = Idle
         /\ UNCHANGED abortControllerRef

Apply(c, r) ==
  /\ Advance(c, r.call)
  /\ lastError' = r.lastError
  /\ isLoading' = r.isLoading

Pending(c) == c \in DOMAIN calls /\ calls[c].pc # "idle"

\* The previous controller is replaced without being aborted.
abortCurrent_skipped(cs) == cs

\* abortControllerRef.current.abort(), if the ref holds a controller.
abortCurrent(cs) ==
  IF abortControllerRef # NullRef /\ abortControllerRef # EndedRef
    THEN [cs EXCEPT ![abortControllerRef[1]].aborted = TRUE]
    ELSE cs

\* A call whose requests run under the configured timeout, or under the
\* timeoutMs of the Execution Context when it has one.
timeLimit_enforced(configured, requested) ==
  IF requested # << >> THEN requested ELSE configured

\* The time limit on the requests of a call, given apiConfig.timeout and the
\* timeoutMs of the Execution Context: none.  fetchOptions holds method,
\* headers, signal and body, the signal is that of the call's own
\* AbortController, and no timer is set on either value.
timeLimit(configured, requested) == << >>

\* No Execution Context: executeAPI called directly.
NoContext == [timeoutMs |-> << >>]

\* executeAPI(params), from the call to its first await, as called by
\* tool.execute(params, context) (`await executeAPI(params)`).
\* requestThrows: "no", or what paramsToRequest throws ("Error" or "value").
executeAPIUnder(requestThrows, context) ==
  \E c \in DOMAIN calls :
    /\ ~Pending(c)
    /\ \A b \in DOMAIN calls : b < c => Pending(b)
    /\ isLoading' = TRUE
    /\ lastError' = Null
    /\ IF requestThrows = "no" /\ Idle.attempt <= maxRetries
         THEN /\ calls' = [abortCurrent(calls) EXCEPT
                            ![c] = [issueFetch(Idle) EXCEPT
                                      !.deadline = timeLimit(apiConfig.timeout,
                                                             context.timeoutMs)]]
              /\ abortControllerRef' = RefTo(c)
              /\ ended' = Idle
         ELSE IF requestThrows = "no"
         THEN \* while (attempt <= maxRetries) is false at once: the loop is
              \* skipped and the statement after it throws
              /\ calls' = abortCurrent(calls)
              /\ abortControllerRef' = EndedRef
              /\ ended' = raises(Idle, ErrUnexpected)
         ELSE /\ calls' = abortCurrent(calls)
              /\ abortControllerRef' = EndedRef
              /\ ended' = [raises(Idle, IF requestThrows = "Error" THEN ErrRequest
                                        ELSE NonError) EXCEPT !.threw = TRUE]
    /\ UNCHANGED << apiConfig, lastResult >>

\* executeAPI(params), called by the caller.
executeAPI(requestThrows) == executeAPIUnder(requestThrows, NoContext)

\* A rate-limit branch that also counts the response as a failed attempt.
rateLimited_countsAttempt(call, header) ==
  [call EXCEPT !.pc = "rlwait", !.hint = header, !.rlNotified = rateLimitWait(header),
               !.rlWait = rateLimitWait(header), !.attempt = @ + 1]

\* if (response.status === 429) { ...; onRateLimit(delay);
\*   await setTimeout(delay); continue }
rateLimited(call, header) ==
  [call EXCEPT !.pc = "rlwait", !.hint = header, !.rlNotified = rateLimitWait(header),
               !.rlWait = rateLimitWait(header)]

\* The fetch of call c settles with a rate-limit response.
\* rateLimitThrows: whether onRateLimit throws.
fetch429(c, header, rateLimitThrows, observerThrows) ==
  LET call == calls[c]
      seen == [call EXCEPT !.n429 = @ + 1]
  IN
  /\ Pending(c)
  /\ call.pc = "fetch"
  /\ call.n429 < MaxRateLimits
  /\ IF rateLimitThrows
       THEN Apply(c, catchBlock([seen EXCEPT !.threw = TRUE], ErrObserver, observerThrows,
                                lastError, isLoading))
       ELSE /\ Advance(c, rateLimited(seen, header))
            /\ UNCHANGED << lastError, isLoading >>
  /\ UNCHANGED << apiConfig, lastResult >>

\* What a fetch can fail with.
FetchErrors == {ErrStatus, ErrNetwork, AbortError, TimeoutError}

\* The fetch of call c settles with an error: a response that is not ok
\* (ErrStatus), a rejection (ErrNetwork), once the signal is aborted an
\* AbortError, or, if the request runs under a time limit, a TimeoutError.
fetchFails(c, err, observerThrows) ==
  LET call == calls[c] IN
  /\ Pending(c)
  /\ call.pc = "fetch"
  /\ err = AbortError => call.aborted
  /\ err = TimeoutError => call.deadline # << >>
  /\ Apply(c, catchBlock(IF err = AbortError THEN call ELSE [call EXCEPT !.nErr = @ + 1],
                         err, observerThrows, lastError, isLoading))
  /\ UNCHANGED << apiConfig, lastResult >>

\* The fetch of call c settles with an ok response: await response.json().
fetchOk(c) ==
  /\ Pending(c)
  /\ calls[c].pc = "fetch"
  /\ Advance(c, [calls[c] EXCEPT !.pc = "json"])
  /\ UNCHANGED << apiConfig, lastResult, lastError, isLoading >>

\* response.json() of call c rejects (ErrJson, or AbortError once aborted).
jsonFails(c, err, observerThrows) ==
  LET call == calls[c] IN
  /\ Pending(c)
  /\ call.pc = "json"
  /\ err = AbortError => call.aborted
  /\ Apply(c, catchBlock(IF err = AbortError THEN call ELSE [call EXCEPT !.nBad = @ + 1],
                         err, observerThrows, lastError, isLoading))
  /\ UNCHANGED << apiConfig, lastResult >>

\* response.json() of call c resolves: transform, commit, notify, return.
\* transformThrows / successThrows: whether responseToResult / onSuccess throw.
jsonOk(c, value, transformThrows, successThrows, observerThrows) ==
  LET call == calls[c] IN
  /\ Pending(c)
  /\ call.pc = "json"
  /\ IF transformThrows THEN
       /\ Apply(c, catchBlock([call EXCEPT !.threw = TRUE], ErrTransform, observerThrows,
                              lastError, isLoading))
       /\ UNCHANGED lastResult
     ELSE IF successThrows THEN
       \* setLastResult(result); setIsLoading(false); onSuccess throws
       /\ lastResult' = value
       /\ Apply(c, catchBlock([call EXCEPT !.threw = TRUE], ErrObserver, observerThrows,
                              lastError, FALSE))
     ELSE
       /\ lastResult' = value
       /\ isLoading' = FALSE
       /\ Advance(c, returns(call, value))
       /\ UNCHANGED lastError
  /\ UNCHANGED apiConfig

\* The timer of a rate-limit or backoff wait of call c fires: the loop
\* tests attempt <= maxRetries and calls fetch again.
waitEnds(c) ==
  LET call == calls[c] IN
  /\ Pending(c)
  /\ call.pc \in {"rlwait", "backoff"}
  /\ Advance(c, IF call.attempt <= maxRetries THEN issueFetch(call)
                ELSE raises(call, ErrUnexpected))
  /\ UNCHANGED << apiConfig, lastResult, lastError, isLoading >>

\* reset() of useAPITool
resetAPI ==
  /\ lastResult' = Null
  /\ lastError' = Null
  /\ isLoading' = FALSE
  /\ abortControllerRef' = NullRef
  /\ calls' = abortCurrent(calls)
  /\ ended' = Idle
  /\ UNCHANGED apiConfig

\* A tool.execute whose Failure carries no errorDetails.
toolExecute_noDetails(call) ==
  IF call.outcome = "returned" THEN
    [data |-> call.value, error |-> Undefined, code |-> Undefined,
     details |-> Undefined, completedAt |-> TRUE]
  ELSE
    [data |-> Undefined, error |-> call.value, code |-> Undefined,
     details |-> Undefined, completedAt |-> FALSE]

\* tool.execute(params, context) of the adapter's tool: the ToolResult it
\* resolves to once its executeAPI call has ended.  code and details are
\* errorDetails.code and errorDetails.details.message (undefined when the
\* result has no errorDetails); completedAt tells whether metadata.completedAt
\* is set.
toolExecute(call) ==
  IF call.outcome = "returned" THEN
    [data |-> call.value, error |-> Undefined, code |-> Undefined,
     details |-> Undefined, completedAt |-> TRUE]
  ELSE IF call.value # NonError THEN
    \* error instanceof Error
    [data |-> Undefined, error |-> call.value, code |-> "API_ERROR",
     details |-> call.value, completedAt |-> FALSE]
  ELSE
    \* return { error: String(error) }
    [data |-> Undefined, error |-> call.value, code |-> Undefined,
     details |-> Undefined, completedAt |-> FALSE]

\* The adapter before any call (useState initial values, useRef(null)), with
\* room for n executeAPI calls pending at once.
InitAPI(n) ==
  /\ lastResult = Null
  /\ lastError = Null
  /\ isLoading = FALSE
  /\ abortControllerRef = NullRef
  /\ calls = [c \in 1..n |-> Idle]
  /\ ended = Idle

\* Any configuration of the adapter, under an orchestrator whose schema
\* accepts its initial draft.
InitConfigured(n) ==
  /\ InitOrch
  /\ InitAPI(n)
  /\ UIUnused
  /\ schema = [safe |-> "err", parse |-> "strict"]
  /\ initialParams = [k \in Keys |-> IF k = "x" THEN 1 ELSE Absent]
  /\ \E ra \in RetryAttemptsOptions, d \in DelayOptions :
       apiConfig = [retryAttempts |-> ra, retryDelay |-> d.retryDelay,
                    rateLimitDelay |-> d.rateLimitDelay, timeout |-> << >>]

NextAPI ==
  \/ \E requestThrows \in {"no", "Error", "value"} :
        executeAPI(requestThrows) /\ UNCHANGED << orchVars, uiVars >>
  \/ \E c \in 1..MaxCalls, header \in RetryAfterHeaders, rateLimitThrows \in BOOLEAN,
        observerThrows \in BOOLEAN :
        fetch429(c, header, rateLimitThrows, observerThrows) /\ UNCHANGED << orchVars, uiVars >>
  \/ \E c \in 1..MaxCalls, err \in FetchErrors,
        observerThrows \in BOOLEAN :
        fetchFails(c, err, observerThrows) /\ UNCHANGED << orchVars, uiVars >>
  \/ \E c \in 1..MaxCalls : fetchOk(c) /\ UNCHANGED << orchVars, uiVars >>
  \/ \E c \in 1..MaxCalls, err \in {ErrJson, AbortError}, observerThrows \in BOOLEAN :
        jsonFails(c, err, observerThrows) /\ UNCHANGED << orchVars, uiVars >>
  \/ \E c \in 1..MaxCalls, transformThrows \in BOOLEAN, successThrows \in BOOLEAN,
        observerThrows \in BOOLEAN :
        \E value \in TransformResults(c) :
          jsonOk(c, value, transformThrows, successThrows, observerThrows)
            /\ UNCHANGED << orchVars, uiVars >>
  \/ \E c \in 1..MaxCalls : waitEnds(c) /\ UNCHANGED << orchVars, uiVars >>
  \/ resetAPI /\ UNCHANGED << orchVars, uiVars >>

\* retryAttempts is typed `number` and is not validated: a caller can
\* configure a negative one.
NegativeRetryAttempts == {<< 0 - 1 >>}

\* Any configuration of the adapter, a negative retryAttempts included.
InitAnyAttempts ==
  /\ InitOrch
  /\ InitAPI(1)
  /\ UIUnused
  /\ schema = [safe |-> "err", parse |-> "strict"]
  /\ initialParams = [k \in Keys |-> IF k = "x" THEN 1 ELSE Absent]
  /\ \E ra \in RetryAttemptsOptions \cup NegativeRetryAttempts, d \in DelayOptions :
       apiConfig = [retryAttempts |-> ra, retryDelay |-> d.retryDelay,
                    rateLimitDelay |-> d.rateLimitDelay, timeout |-> << >>]

SpecAPIAnyAttempts == InitAnyAttempts /\ [][NextAPI]_vars

\* One executeAPI call at a time: the caller starts the next call after the
\* previous one has ended, and may call reset() at any time.
InitAdapter == InitConfigured(1)

SpecAPI == InitAdapter /\ [][NextAPI]_vars

\* The transport answers every request, response bodies finish reading and
\* timers fire: a pending call is never left waiting forever.
Respond ==
  /\ \E c \in 1..MaxCalls :
       \/ \E header \in RetryAfterHeaders, rateLimitThrows \in BOOLEAN,
             observerThrows \in BOOLEAN :
             fetch429(c, header, rateLimitThrows, observerThrows)
       \/ \E err \in FetchErrors, observerThrows \in BOOLEAN :
             fetchFails(c, err, observerThrows)
       \/ fetchOk(c)
       \/ \E err \in {ErrJson, AbortError}, observerThrows \in BOOLEAN :
             jsonFails(c, err, observerThrows)
       \/ \E transformThrows \in BOOLEAN, successThrows \in BOOLEAN,
             observerThrows \in BOOLEAN :
             \E value \in TransformResults(c) :
               jsonOk(c, value, transformThrows, successThrows, observerThrows)
       \/ waitEnds(c)
  /\ UNCHANGED << orchVars, uiVars >>

\* SpecAPI under that transport.  The transport stops answering a call with
\* rate-limit responses after MaxRateLimits of them.
SpecAPILive == SpecAPI /\ WF_vars(Respond)

\* Overlapping executeAPI calls on one adapter instance, configured without
\* retries or with one retry, and with the default delays.
InitOverlap ==
  /\ InitConfigured(MaxCalls)
  /\ apiConfig.retryAttempts \in {<< >>, << 1 >>}
  /\ apiConfig.retryDelay = << >>

SpecOverlap == InitOverlap /\ [][NextAPI]_vars


(***************************************************************************)
(* The orchestrator bound to the adapter's tool.  execute() runs on into   *)
(* tool.execute and executeAPI up to the first fetch; the step that ends   *)
(* the executeAPI call resolves tool.execute, and execute() settles on     *)
(* its ToolResult.                                                         *)
(***************************************************************************)
\* The caller aborts the abortSignal of the Execution Context it passed to
\* execute() while the request of call c is in flight.  execute() hands the
\* signal to tool.execute, which reads only context.toolCallId.
abortContext(c) ==
  /\ Pending(c)
  /\ calls[c].pc = "fetch"
  /\ ~calls[c].ctxAborted
  /\ calls' = [calls EXCEPT ![c].ctxAborted = TRUE]
  /\ ended' = Idle
  /\ UNCHANGED << apiConfig, lastResult, lastError, isLoading, abortControllerRef >>

\* How execute() reads a ToolResult: execResult.error, then execResult.data.
outcomeOf(toolResult) ==
  IF toolResult.error # Undefined THEN [kind |-> "error", data |-> Undefined]
  ELSE IF toolResult.data # Undefined THEN [kind |-> "data", data |-> toolResult.data]
  ELSE [kind |-> "neither", data |-> Undefined]

\* A step of the adapter; if it ends the call, execute() settles.
adapterStep(A) ==
  /\ A
  /\ IF ended'.pc = "done"
       THEN \E completeThrows \in BOOLEAN, errorThrows \in BOOLEAN :
              /\ settle(outcomeOf(toolExecute(ended')), completeThrows, errorThrows)
              /\ UNCHANGED ctxVars
       ELSE UNCHANGED orchVars
  /\ UNCHANGED uiVars

InitNet ==
  /\ InitConfigured(1)

NextNet ==
  \/ \E startThrows \in BOOLEAN, errorThrows \in BOOLEAN :
        /\ execute(startThrows, errorThrows)
        /\ IF last'.invoked THEN executeAPI("no") ELSE UNCHANGED apiVars
        /\ UNCHANGED << ctxVars, uiVars >>
  \/ \E c \in 1..MaxCalls : abortContext(c) /\ UNCHANGED << orchVars, uiVars >>
  \/ \E c \in 1..MaxCalls, header \in RetryAfterHeaders, rateLimitThrows \in BOOLEAN,
        observerThrows \in BOOLEAN :
        adapterStep(fetch429(c, header, rateLimitThrows, observerThrows))
  \/ \E c \in 1..MaxCalls, err \in FetchErrors,
        observerThrows \in BOOLEAN :
        adapterStep(fetchFails(c, err, observerThrows))
  \/ \E c \in 1..MaxCalls : fetchOk(c) /\ UNCHANGED << orchVars, uiVars >>
  \/ \E c \in 1..MaxCalls, err \in {ErrJson, AbortError}, observerThrows \in BOOLEAN :
        adapterStep(jsonFails(c, err, observerThrows))
  \/ \E c \in 1..MaxCalls, transformThrows \in BOOLEAN, successThrows \in BOOLEAN,
        observerThrows \in BOOLEAN :
        \E value \in TransformResults(c) :
          adapterStep(jsonOk(c, value, transformThrows, successThrows, observerThrows))
  \/ \E c \in 1..MaxCalls : adapterStep(waitEnds(c))
  \/ resetAPI /\ UNCHANGED << orchVars, uiVars >>
  \/ reset /\ UNCHANGED << apiVars, ctxVars, uiVars >>

SpecNet == InitNet /\ [][NextNet]_vars

\* The orchestrator bound to an arbitrary tool: the adapter stays unused.
Init ==
  /\ InitOrch
  /\ InitAPI(1)
  /\ UIUnused
  /\ apiConfig = [retryAttempts |-> << >>, retryDelay |-> << >>, rateLimitDelay |-> << >>,
                  timeout |-> << >>]

Next ==
  \/ \E key \in Keys, value \in Vals : updateParam(key, value) /\ UNCHANGED << apiVars, ctxVars, uiVars >>
  \/ \E draft \in Draft : setParams(draft) /\ UNCHANGED << apiVars, ctxVars, uiVars >>
  \/ render /\ UNCHANGED << apiVars, ctxVars, uiVars >>
  \/ \E startThrows \in BOOLEAN, errorThrows \in BOOLEAN :
        execute(startThrows, errorThrows) /\ UNCHANGED << apiVars, ctxVars, uiVars >>
  \/ \E out \in ToolOutcomes, completeThrows \in BOOLEAN, errorThrows \in BOOLEAN :
        settle(out, completeThrows, errorThrows) /\ UNCHANGED << apiVars, ctxVars, uiVars >>
  \/ reset /\ UNCHANGED << apiVars, ctxVars, uiVars >>

Spec == Init /\ [][Next]_vars

\* The parameter draft and its validation.
NextValidate ==
  \/ \E key \in Keys, value \in Vals : updateParam(key, value) /\ UNCHANGED << apiVars, ctxVars, uiVars >>
  \/ \E draft \in Draft : setParams(draft) /\ UNCHANGED << apiVars, ctxVars, uiVars >>
  \/ render /\ UNCHANGED << apiVars, ctxVars, uiVars >>
  \/ validateParamsCall /\ UNCHANGED << apiVars, ctxVars, uiVars >>

SpecValidate == Init /\ [][NextValidate]_vars

\* The orchestrator with the clock and the contexts its invocations build.
NextContext ==
  \/ \E context \in ContextArgs, startThrows \in BOOLEAN, errorThrows \in BOOLEAN :
        executeWith(context, startThrows, errorThrows) /\ UNCHANGED << apiVars, uiVars >>
  \/ \E out \in ToolOutcomes, completeThrows \in BOOLEAN, errorThrows \in BOOLEAN :
        settle(out, completeThrows, errorThrows) /\ UNCHANGED << apiVars, ctxVars, uiVars >>
  \/ tick /\ UNCHANGED << apiVars, uiVars >>

SpecContext == Init /\ [][NextContext]_vars

\* Timeout values a caller configures (ms), in apiConfig.timeout or in the
\* timeoutMs of an Execution Context.
TimeoutOptions == {<< >>, << 1 >>}

\* The component renders again with an apiConfig that differs in timeout only.
configureTimeout(t) ==
  /\ apiConfig.timeout # t
  /\ apiConfig' = [apiConfig EXCEPT !.timeout = t]
  /\ ended' = Idle
  /\ UNCHANGED << lastResult, lastError, isLoading, abortControllerRef, calls >>

\* The orchestrator bound to the adapter's tool, configured with one retry,
\* under any apiConfig.timeout and any timeoutMs of the Execution Context.
InitTimeout ==
  /\ InitConfigured(1)
  /\ apiConfig.retryAttempts = << 1 >>
  /\ apiConfig.retryDelay = << >>

NextTimeout ==
  \/ \E context \in TimeoutContextArgs, startThrows \in BOOLEAN, errorThrows \in BOOLEAN :
        /\ executeWith(context, startThrows, errorThrows)
        /\ IF last'.invoked THEN executeAPIUnder("no", executionContext(context))
           ELSE UNCHANGED apiVars
        /\ UNCHANGED uiVars
  \/ \E t \in TimeoutOptions : configureTimeout(t) /\ UNCHANGED << orchVars, uiVars >>
  \/ \E c \in 1..MaxCalls, header \in RetryAfterHeaders, rateLimitThrows \in BOOLEAN,
        observerThrows \in BOOLEAN :
        adapterStep(fetch429(c, header, rateLimitThrows, observerThrows))
  \/ \E c \in 1..MaxCalls, err \in FetchErrors, observerThrows \in BOOLEAN :
        adapterStep(fetchFails(c, err, observerThrows))
  \/ \E c \in 1..MaxCalls : fetchOk(c) /\ UNCHANGED << orchVars, uiVars >>
  \/ \E c \in 1..MaxCalls, err \in {ErrJson, AbortError}, observerThrows \in BOOLEAN :
        adapterStep(jsonFails(c, err, observerThrows))
  \/ \E c \in 1..MaxCalls, transformThrows \in BOOLEAN, successThrows \in BOOLEAN,
        observerThrows \in BOOLEAN :
        \E value \in TransformResults(c) :
          adapterStep(jsonOk(c, value, transformThrows, successThrows, observerThrows))
  \/ \E c \in 1..MaxCalls : adapterStep(waitEnds(c))

SpecTimeout == InitTimeout /\ [][NextTimeout]_vars

(***************************************************************************)
(* The hooks and components beside the tool subsystem, each on its own.    *)
(***************************************************************************)
\* The adapter and the orchestrator stay unused.
RestUnused ==
  /\ ToolsUnused
  /\ InitAPI(1)
  /\ apiConfig = [retryAttempts |-> << >>, retryDelay |-> << >>, rateLimitDelay |-> << >>,
                  timeout |-> << >>]

InitSearch ==
  /\ RestUnused
  /\ \E options \in SearchOptions : useSearch(options)
  /\ FlowUnused
  /\ PersistenceUnused
  /\ SelectionUnused

NextSearch ==
  \/ \E query \in Queries : setQuery(query) /\ UNCHANGED besideSearch
  \/ \E sort \in Sorts :
        handleSetSort(sort.key, sort.direction) /\ UNCHANGED besideSearch
  \/ \E newPage \in PageArgs : goToPage(newPage) /\ UNCHANGED besideSearch
  \/ nextPage /\ UNCHANGED besideSearch
  \/ prevPage /\ UNCHANGED besideSearch
  \/ \E newData \in {<< >>} \cup {<< d >> : d \in DataSets} :
        refresh(newData) /\ UNCHANGED besideSearch
  \/ refreshTimer /\ UNCHANGED besideSearch
  \/ resetSearch /\ UNCHANGED besideSearch
  \/ searchRender /\ UNCHANGED besideSearch

SpecSearch == InitSearch /\ [][NextSearch]_vars

InitFlow ==
  /\ RestUnused
  /\ SearchUnused
  /\ \E options \in FlowOptions : useGuidedFlow(options)
  /\ PersistenceUnused
  /\ SelectionUnused

NextFlow ==
  \/ \E newData \in FlowUpdates :
        updateData(newData) /\ UNCHANGED besideFlow
  \/ goToNextStep /\ UNCHANGED besideFlow
  \/ goToPreviousStep /\ UNCHANGED besideFlow
  \/ \E index \in StepArgs : goToStep(index) /\ UNCHANGED besideFlow
  \/ resetFlow /\ UNCHANGED besideFlow
  \/ complete /\ UNCHANGED besideFlow
  \/ flowRender /\ UNCHANGED besideFlow

SpecFlow == InitFlow /\ [][NextFlow]_vars

InitPersistence ==
  /\ RestUnused
  /\ SearchUnused
  /\ FlowUnused
  /\ \E config \in PersistenceConfigs :
       \E entry \in (IF config.storage THEN StoredEntries ELSE {NoEntry}) :
         useChatStatePersistence(config, entry)
  /\ SelectionUnused

NextPersistence ==
  \/ existenceEffect /\ UNCHANGED besidePersistence
  \/ \E newState \in ChatStates \cup Updaters, setItemThrows \in BOOLEAN :
        setState(newState, setItemThrows)
          /\ UNCHANGED besidePersistence
  \/ \E setItemThrows \in BOOLEAN :
        resetState(setItemThrows) /\ UNCHANGED besidePersistence
  \/ \E removeItemThrows \in BOOLEAN :
        clearState(removeItemThrows) /\ UNCHANGED besidePersistence

SpecPersistence == InitPersistence /\ [][NextPersistence]_vars

InitSelection ==
  /\ RestUnused
  /\ SearchUnused
  /\ FlowUnused
  /\ PersistenceUnused
  /\ \E props \in SelectionProps : SearchResults(props)

NextSelection ==
  \/ \E i \in DOMAIN results, select \in BOOLEAN :
        handleItemSelect(i, select)
          /\ UNCHANGED besideSelection
  \/ handleSelectAll /\ UNCHANGED besideSelection
  \/ handleDeselectAll /\ UNCHANGED besideSelection

SpecSelection == InitSelection /\ [][NextSelection]_vars

(***************************************************************************)
(* Properties of the Execution Orchestrator (checked under Spec)           *)
(***************************************************************************)

\* C1: whenever safeParse reports success = false on the draft, execute()
\* resolves to undefined and tool.execute is not called.
C1_SafeParseFailureNeverReachesTool ==
  (last.ev = "execute" /\ last.safeFailed)
    => (~last.invoked /\ last.status = "resolved" /\ last.ret = Undefined)

\* C2: isExecuting is true exactly while some execution that has called the
\* tool has not yet settled.
C2_IsExecutingIffInFlight == isExecuting <=> (inflight > 0)

\* C3: result and error are never both non-null.
C3_ResultErrorExclusive == ~(result # Null /\ error # Null)

\* C5: an execute() that directly follows updateParam(k, v) validates (and
\* hands on) the merged draft, the one holding k = v.
C5_ExecuteUsesMergedDraft ==
  (last.ev = "execute" /\ last.upd # NoUpdate)
    => (last.validated[last.upd[1]] = last.upd[2] /\ last.validated = params)

C13_ExecuteNeverRejects ==
  last.ev \in {"execute", "settle"}
    => /\ last.status # "rejected"
       /\ (/\ last.status = "resolved"
           /\ last.ret = Undefined
           /\ (~last.invoked \/ \E i \in DOMAIN last.cbs : last.cbs[i] = "onExecutionError"))
            => (error # Null \/ validationErrors # NoValidationErrors)

\* C18: an execute() run calls tool.execute once if validateParams() returns
\* true, parse returns and onExecutionStart returns, and not at all
\* otherwise; its settlement, whatever the tool's outcome, and the other
\* operations call it never.  (inflight counts the calls of tool.execute that
\* have not settled.)
C18_ToolInvokedExactlyOnce ==
  [][/\ last'.ev = "execute"
          => /\ inflight' - inflight =
                  (IF /\ validateParams(schema, rendered).ok
                      /\ ~parse(schema, rendered).threw
                      /\ last'.cbs # << "onExecutionStart", "onExecutionError" >>
                     THEN 1 ELSE 0)
             /\ last'.invoked <=> (inflight' = inflight + 1)
     /\ last'.ev = "settle" => inflight' = inflight - 1
     /\ last'.ev \notin {"execute", "settle"} => inflight' = inflight]_vars

\* C18 witness: the tool was called once and has reported an error; the
\* execution has settled without another call.
C18_Witness_SettledAfterOneCall ==
  /\ last.ev = "settle"
  /\ last.cbs = << "onExecutionError" >>
  /\ error = ErrTool
  /\ inflight = 0

\* C19 (checked under SpecValidate): validateParams() returns (it never
\* throws); when the schema throws it returns false and validationErrors is
\* the single entry _general; when safeParse reports failure it returns false
\* and validationErrors holds the message of each offending field, keyed by
\* the field or else by the dotted path; when safeParse succeeds it returns
\* true and validationErrors is null.
C19_ValidateParamsReportsFailure ==
  last.ev = "validateParams"
    => LET d == last.validated
           sp == safeParse(schema, d)
           offending == (IF d["x"] = Absent THEN {"query.x"} ELSE {})
                          \cup (IF d["y"] = 1 THEN {"y"} ELSE {})
       IN
       /\ last.status = "returned"
       /\ sp.kind = "throw"
            => /\ last.ret = "false"
               /\ validationErrors # NoValidationErrors
               /\ DOMAIN validationErrors[1] = {"_general"}
       /\ (sp.kind # "throw" /\ ~sp.success)
            => /\ last.ret = "false"
               /\ validationErrors =
                    Some([k \in offending |-> IF k = "y" THEN "invalid" ELSE "required"])
       /\ (sp.kind # "throw" /\ sp.success)
            => /\ last.ret = "true"
               /\ validationErrors = NoValidationErrors

\* C20: when tool.execute settles on a ToolResult with an error string,
\* execute() stores the Error in error, notifies onExecutionError once,
\* leaves result null and resolves to undefined; when the ToolResult carries
\* data and no error, whatever the data value, execute() stores it in
\* result, notifies onExecutionComplete once and, the callback returning,
\* resolves to it.
C20_SettlementStoresErrorOrData ==
  last.ev = "settle"
    => /\ last.out.kind \in {"error", "both"}
            => /\ error = ErrTool
               /\ last.cbs = << "onExecutionError" >>
               /\ result = Null
               /\ last.ret = Undefined
       /\ last.out.kind = "data"
            => /\ result = last.out.data
               /\ Len(last.cbs) >= 1 /\ last.cbs[1] = "onExecutionComplete"
               /\ \A i \in 2..Len(last.cbs) : last.cbs[i] # "onExecutionComplete"
               /\ last.cbs = << "onExecutionComplete" >>
                    => (last.status = "resolved" /\ last.ret = last.out.data)

\* C17 (checked under SpecContext): every tool invocation gets a context of
\* its own, and a generated toolCallId differs from the toolCallId of every
\* other invocation.
C17_GeneratedIdsAreUnique ==
  \A i, j \in DOMAIN contexts :
    (i # j /\ contexts[i].generated) => contexts[i].toolCallId # contexts[j].toolCallId

\* C29: an execute() that has set isExecuting to true (it went past
\* validateParams(), so it called parse) leaves isExecuting false in the step
\* in which it settles: when parse or onExecutionStart throws, and when the
\* tool's execute settles with data, with an error, with neither or by
\* throwing, whether or not onExecutionComplete and onExecutionError throw.
C29_IsExecutingResetOnEveryPath ==
  [][(/\ last'.ev \in {"execute", "settle"}
      /\ last'.status \in {"resolved", "rejected"}
      /\ (last'.ev = "settle" \/ Len(last'.schemaCalls) = 2))
       => isExecuting' = FALSE]_vars

\* C29 witness: the tool's execute threw, onExecutionError threw out of the
\* catch block, so execute() rejected, and isExecuting is false.
C29_Witness_ResetAfterCallbackThrows ==
  /\ last.ev = "settle"
  /\ last.out.kind = "throw"
  /\ last.status = "rejected"
  /\ ~isExecuting

\* C21: an execute() that reaches the tool has called safeParse and then
\* parse, once each and on the same draft, and has handed the tool the value
\* parse returned; an execute() whose safeParse reported failure has not
\* called parse.
C21_SafeParseThenParse ==
  last.ev = "execute"
    => /\ last.invoked
            => /\ last.schemaCalls = << [fn |-> "safeParse", arg |-> last.validated],
                                        [fn |-> "parse", arg |-> last.validated] >>
               /\ last.handed = << parse(schema, last.validated).value >>
       /\ last.safeFailed
            => \A i \in DOMAIN last.schemaCalls : last.schemaCalls[i].fn # "parse"

\* C31: updateParam(key, value) sets params[key] to value and leaves every
\* other field of the draft, result, error, validationErrors and isExecuting
\* as they were; it calls neither the schema nor the tool.  The state changes
\* only in steps of the orchestrator's own operations: while the tool's
\* execute runs, between the call and its settlement, nothing is written
\* but by those.
C31_UpdateParamOnlyMerges ==
  [][/\ last'.ev = "updateParam"
          => /\ params'[last'.upd[1]] = last'.upd[2]
             /\ \A k \in Keys \ {last'.upd[1]} : params'[k] = params[k]
             /\ result' = result
             /\ error' = error
             /\ validationErrors' = validationErrors
             /\ isExecuting' = isExecuting
             /\ last'.schemaCalls = << >>
             /\ ~last'.invoked
             /\ inflight' = inflight
     /\ params' # params => last'.ev \in {"updateParam", "setParams", "reset"}
     /\ << result', error', isExecuting', validationErrors' >>
           # << result, error, isExecuting, validationErrors >>
          => last'.ev \in {"execute", "settle", "reset"}]_vars

\* C31 witness: updateParam has just run on a draft that holds the other
\* field, while an execution is in flight and validationErrors is set.
C31_Witness_MergedWhileExecuting ==
  /\ last.ev = "updateParam"
  /\ \E k \in Keys \ {last.upd[1]} : params[k] # Absent
  /\ isExecuting /\ inflight > 0
  /\ validationErrors # NoValidationErrors

\* C38: when the execution that was in flight at a reset() settles right
\* after it, before any other execute(), result and error are still null and
\* isExecuting is still false, whatever the tool settled to.
C38_ResetHoldsUntilNextExecute ==
  [][(last.ev = "reset" /\ last'.ev = "settle")
       => (result' = Null /\ error' = Null /\ isExecuting' = FALSE)]_vars

(***************************************************************************)
(* Properties of useSearch (checked under SpecSearch)                      *)
(***************************************************************************)

\* C24: once every render and effect has run, 1 <= page <= totalPages,
\* whatever actions were called before, several within one render included.
C24_PageStaysInRange ==
  SearchSettled
    => (1 <= search.page /\ search.page <= totalPages(search, searchOptions.pageSize))

\* C25: once every render and effect has run after the batch setQuery(q),
\* setSort(k, d), goToPage(p), with p a page of the list the query q
\* leaves, query = q, sort = {k, d} and page = p; and after a batch ending
\* in reset(), query, sort and data are the initial ones and page is
\* initialPage (when the initial list has that page).
C25_BatchAppliesAndResetRestores ==
  LET acts == searchBatch.acts
      initial == [search EXCEPT !.data = searchOptions.initialData,
                                !.query = searchOptions.initialQuery,
                                !.sort = searchOptions.initialSort]
  IN
  /\ (/\ SearchSettled /\ Len(acts) = 3
      /\ acts[1].op = "setQuery" /\ acts[2].op = "setSort" /\ acts[3].op = "goToPage"
      /\ 1 <= acts[3].page
      /\ acts[3].page <= totalPages([search EXCEPT !.query = acts[1].query],
                                    searchOptions.pageSize))
       => /\ search.query = acts[1].query
          /\ search.sort = acts[2].sort
          /\ search.page = acts[3].page
  /\ (/\ SearchSettled /\ acts # << >>
      /\ acts[Len(acts)].op = "reset")
       => /\ search.query = searchOptions.initialQuery
          /\ search.sort = searchOptions.initialSort
          /\ search.data = searchOptions.initialData
          /\ searchOptions.initialPage <= totalPages(initial, searchOptions.pageSize)
               => search.page = searchOptions.initialPage

(***************************************************************************)
(* Properties of useGuidedFlow (checked under SpecFlow)                    *)
(***************************************************************************)

\* C26: goToNextStep() returns true and moves currentStepIndex up by one
\* whenever the validation of the current step passes; it returns false
\* only when that validation failed, and then currentStepIndex is as before
\* and the validation error is set.
C26_NextStepAdvancesWhenValid ==
  flowLast.ev = "goToNextStep"
    => /\ flowLast.valid
            => (flowLast.ret = "true" /\ flow.currentStepIndex = flowLast.before + 1)
       /\ flowLast.ret = "false"
            => /\ ~flowLast.valid
               /\ flow.currentStepIndex = flowLast.before
               /\ flow.error # Undefined

\* C39: 0 <= currentStepIndex < totalSteps after any sequence of
\* goToNextStep, goToPreviousStep, goToStep and reset calls, several calls
\* within one render included, so currentStep, steps[currentStepIndex] of a
\* render, is always a step.
C39_StepIndexInRange ==
  /\ flow.currentStepIndex \in 0..(totalSteps - 1)
  /\ flowRendered.currentStepIndex \in 0..(totalSteps - 1)

(***************************************************************************)
(* Properties of useChatStatePersistence (checked under SpecPersistence)   *)
(***************************************************************************)

\* C27: once the effect of the first render has run, hasPersistedState is
\* true exactly when the Storage holds an entry under the hook's key.
C27_HasPersistedStateIffStored ==
  mounted => (chatState.hasPersistedState <=> (persistConfig.storage /\ storage # NoEntry))

(***************************************************************************)
(* Properties of SearchResults (checked under SpecSelection)               *)
(***************************************************************************)

\* C28: a result item is reported as selected exactly when it was selected
\* and has not been deselected since, for either getItemId.
C28_ReportedSelectionIsTheSelection ==
  \A i \in DOMAIN results :
    isItemSelected(results[i], IndexOf(i)) <=> (i \in selected)

(***************************************************************************)
(* Properties of the orchestrator bound to the adapter (under SpecNet)     *)
(***************************************************************************)

\* C4: once the abortSignal of the Execution Context is aborted while a
\* request is in flight, the call makes no further request and no onRetry
\* notification, it ends with the cancellation error, and isExecuting is
\* false when execute() has settled.
C4_ContextAbortEndsTheCall ==
  /\ \A c \in DOMAIN calls : ~calls[c].late
  /\ ~ended.late
  /\ (ended.pc = "done" /\ ended.ctxAborted)
       => (ended.outcome = "raised" /\ ended.value = AbortError /\ ~isExecuting)

(***************************************************************************)
(* Properties of the Networked Tool Adapter (checked under SpecAPI)        *)
(***************************************************************************)

\* C7: the ToolResult tool.execute resolves to has exactly one of data and
\* error populated, whatever the call ended with.
C7_ExactlyOneOfDataError ==
  ended.pc = "done"
    => LET r == toolExecute(ended) IN ~((r.data # Undefined) <=> (r.error # Undefined))

\* C8: the k-th backoff wait of a call is retryDelay * k; and with
\* retryAttempts = 2 and retryDelay = 100, a call answered 500, 500, 200
\* returns on its third request after waiting 100 and then 200 ms.
C8_BackoffIsLinear ==
  /\ \A call \in {calls[c] : c \in DOMAIN calls} \cup {ended} :
       \A k \in DOMAIN call.backoffs : call.backoffs[k] = retryDelay * k
  /\ (/\ apiConfig.retryAttempts = << 2 >>
      /\ apiConfig.retryDelay = << 100 >>
      /\ ended.outcome = "returned"
      /\ ended.nErr = 2 /\ ended.n429 = 0 /\ ended.nBad = 0)
       => (ended.requests = 3 /\ ended.backoffs = << 100, 200 >>)

\* C8 witness: configured with retryAttempts = 2 and retryDelay = 100, a call
\* has returned on its third request after two failures and waits of 100
\* and 200 ms.
C8_Witness_ThirdRequestSucceeds ==
  /\ apiConfig.retryAttempts = << 2 >>
  /\ apiConfig.retryDelay = << 100 >>
  /\ ended.outcome = "returned"
  /\ ended.nErr = 2 /\ ended.n429 = 0
  /\ ended.requests = 3
  /\ ended.backoffs = << 100, 200 >>

\* C9: a call that has so far met only rate-limit responses (and whose
\* observers returned normally) has attempt = 0 and has notified neither
\* onRetry nor onError; when such a call ends it has returned, unless it was
\* cancelled; and the wait after a 429 with a hint of 2 seconds is 2000 ms.
C9_RateLimitKeepsRetryBudget ==
  \A call \in {calls[c] : c \in DOMAIN calls} \cup {ended} :
    /\ (call.nErr = 0 /\ call.nBad = 0 /\ ~call.threw)
         => /\ call.attempt = 0
            /\ call.retries = << >>
            /\ call.onErrors = 0
            /\ (call.pc = "done" /\ call.outcome = "raised") => call.value = AbortError
    /\ (call.pc = "rlwait" /\ call.hint = << 2 >>) => call.rlWait = 2000

\* C9 witness: with retryAttempts = 0 a call has returned after two 429
\* responses and a 200, its attempt counter still 0.
C9_Witness_ReturnsAfterRateLimits ==
  /\ apiConfig.retryAttempts = << 0 >>
  /\ ended.outcome = "returned"
  /\ ended.n429 = 2 /\ ended.nErr = 0
  /\ ended.requests = 3
  /\ ended.attempt = 0

\* C10: with retryAttempts = n, while every request of a call has failed with
\* an ordinary error (observers returning normally) the call has notified
\* onRetry with 1, 2, ... once per failure, at most n times, and neither
\* onError nor lastError is touched; when the call ends it has issued n + 1
\* requests, notified onRetry with 1..n, stored the error in lastError,
\* notified onError once and raised.
C10_RetryBudgetBoundsFailures ==
  LET n == IF apiConfig.retryAttempts = << >> THEN 0 ELSE apiConfig.retryAttempts[1] IN
  /\ \A c \in DOMAIN calls :
       (/\ calls[c].pc \in {"fetch", "backoff"}
        /\ calls[c].n429 = 0 /\ calls[c].nBad = 0 /\ ~calls[c].threw
        /\ calls[c].nErr = calls[c].requests - (IF calls[c].pc = "fetch" THEN 1 ELSE 0))
         => /\ calls[c].nErr <= n
            /\ calls[c].retries = [k \in 1..calls[c].nErr |-> k]
            /\ calls[c].onErrors = 0
            /\ lastError = Null
  /\ (/\ ended.pc = "done"
      /\ ended.requests > 0
      /\ ended.nErr = ended.requests
      /\ ~ended.threw)
       => /\ ended.outcome = "raised"
          /\ ended.value \in {ErrStatus, ErrNetwork}
          /\ ended.requests = n + 1
          /\ ended.retries = [k \in 1..n |-> k]
          /\ ended.onErrors = 1
          /\ lastError = ended.value
          /\ ~isLoading

\* C10 witness: with retryAttempts = 2 a call has raised after three failed
\* requests and the retries 1 and 2, its error stored in lastError.
C10_Witness_BudgetExhausted ==
  /\ apiConfig.retryAttempts = << 2 >>
  /\ ended.outcome = "raised"
  /\ ended.requests = 3 /\ ended.nErr = 3
  /\ ended.retries = << 1, 2 >>
  /\ ended.onErrors = 1
  /\ ~ended.threw
  /\ lastError = ended.value

\* C12: the step in which a call ends with the cancellation error changes
\* nothing of the call but its end (attempt, requests, onRetry and onError
\* notifications are as before), leaves lastError and lastResult as they
\* were, and sets isLoading to false.
C12_CancellationEndsCallAtOnce ==
  [][(ended'.pc = "done" /\ ended'.value = AbortError)
       => /\ \E c \in DOMAIN calls :
               /\ Pending(c)
               /\ calls'[c] = Idle
               /\ ended' = [calls[c] EXCEPT !.pc = "done", !.outcome = "raised",
                                            !.value = AbortError]
          /\ lastError' = lastError
          /\ lastResult' = lastResult
          /\ isLoading' = FALSE]_vars

\* C12 witness: a call cancelled during its second request has ended with
\* the cancellation error, its attempt counter and notifications as the one
\* retry left them.
C12_Witness_CancelledAfterRetry ==
  /\ ended.pc = "done" /\ ended.outcome = "raised" /\ ended.value = AbortError
  /\ ended.requests = 2 /\ ended.attempt = 1
  /\ ended.retries = << 1 >> /\ ended.onErrors = 0
  /\ ~isLoading

\* C14 as claimed: a raised error becomes a Failure with the message, the
\* code "TRANSPORT_ERROR" and details, and no data; a returned value becomes a
\* Success with the data and completedAt, and no error.
C14_FailureCodeTransportError ==
  ended.pc = "done"
    => LET r == toolExecute(ended) IN
       IF ended.outcome = "raised"
         THEN /\ r.error = ended.value
              /\ r.code = "TRANSPORT_ERROR"
              /\ r.details # Undefined
              /\ r.data = Undefined
         ELSE /\ r.data = ended.value
              /\ r.completedAt
              /\ r.error = Undefined

\* C14 as amended: a raised Error becomes a Failure with the message, the
\* code "API_ERROR" and details; a raised value that is not an Error becomes
\* a Failure with its string form and no errorDetails; neither carries data
\* or completedAt; a returned value becomes a Success with that value as
\* data and completedAt, and no error or errorDetails.
C14_FailureCodeApiError ==
  ended.pc = "done"
    => LET r == toolExecute(ended) IN
       IF ended.outcome = "raised"
         THEN /\ r.error = ended.value
              /\ r.data = Undefined
              /\ ~r.completedAt
              /\ IF ended.value = NonError
                   THEN r.code = Undefined /\ r.details = Undefined
                   ELSE r.code = "API_ERROR" /\ r.details = ended.value
         ELSE /\ r.data = ended.value
              /\ r.completedAt
              /\ r.error = Undefined
              /\ r.code = Undefined

\* C14 witness: a call has raised an Error after its retries and its
\* ToolResult is the Failure with code "API_ERROR".
C14_Witness_FailureAfterRetries ==
  /\ ended.pc = "done" /\ ended.outcome = "raised"
  /\ ended.value = ErrStatus
  /\ ended.requests = 2
  /\ toolExecute(ended).code = "API_ERROR"
  /\ toolExecute(ended).error = ErrStatus

C22_RateLimitWaitFollowsHint ==
  \A c \in DOMAIN calls :
    calls[c].pc = "rlwait"
      => /\ calls[c].hint # << >> => calls[c].rlWait = calls[c].hint[1] * 1000
         /\ calls[c].hint = << >>
              => calls[c].rlWait =
                   (IF apiConfig.rateLimitDelay \in {<< >>, << 0 >>}
                      THEN DefaultRateLimitDelay ELSE apiConfig.rateLimitDelay[1])
         /\ calls[c].rlNotified = calls[c].rlWait

\* C23: the retry loop uses each configured value as configured, 0
\* included, and the default (0, 1000, 5000) only for a value that is not
\* configured: a call notifies onRetry at most retryAttempts times, its k-th
\* backoff wait is retryDelay * k, and its wait on a rate-limit response
\* without a hint is rateLimitDelay.
C23_DefaultsOnlyWhenUnconfigured ==
  LET configured(option, default) == IF option = << >> THEN default ELSE option[1] IN
  \A call \in {calls[c] : c \in DOMAIN calls} \cup {ended} :
    /\ Len(call.retries) <= configured(apiConfig.retryAttempts, 0)
    /\ \A k \in DOMAIN call.backoffs :
         call.backoffs[k] = configured(apiConfig.retryDelay, DefaultRetryDelay) * k
    /\ (call.pc = "rlwait" /\ call.hint = << >>)
         => call.rlWait = configured(apiConfig.rateLimitDelay, DefaultRateLimitDelay)

\* C30: a call whose controller has been aborted (reset() was called, or
\* a newer call has started) is not inside a rate-limit or backoff wait: it
\* has ended with the cancellation error and left no timer pending.
C30_CancelledWaitEndsAtOnce ==
  \A c \in DOMAIN calls : calls[c].aborted => calls[c].pc \notin {"rlwait", "backoff"}

\* C32 (checked under SpecAPIAnyAttempts): no call raises the error of the
\* statement after the retry loop; a call ends by returning a result or by
\* raising from inside the loop body, whatever retryAttempts is.
C32_PostLoopThrowUnreachable ==
  \A call \in {calls[c] : c \in DOMAIN calls} \cup {ended} :
    ~(call.outcome = "raised" /\ call.value = ErrUnexpected)

\* C35: when no executeAPI call is pending (every call started has returned
\* or raised), isLoading is false, whatever the configuration and whether or
\* not paramsToRequest, responseToResult and the observers throw.
C35_NotLoadingWhenNoCallPending ==
  (\A c \in DOMAIN calls : ~Pending(c)) => ~isLoading

\* C36: the step in which a call writes its result to lastResult ends the
\* call by returning that result: the call notifies neither onRetry nor
\* onError in it, lastError stays as it was, and the call is not left
\* pending, to wait and issue another request.
C36_NothingAfterCommit ==
  [][\A c \in DOMAIN calls :
       (Pending(c) /\ calls[c].pc = "json" /\ calls'[c] # calls[c]
        /\ lastResult' # lastResult)
         => /\ ~Pending(c)'
            /\ ended'.outcome = "returned" /\ ended'.value = lastResult'
            /\ ended'.retries = calls[c].retries
            /\ ended'.onErrors = calls[c].onErrors
            /\ lastError' = lastError]_vars

(***************************************************************************)
(* Properties of the adapter under timeouts (checked under SpecTimeout)    *)
(***************************************************************************)

C11_SingleFlight ==
  /\ \A c \in DOMAIN calls :
       (Pending(c) /\ ~calls[c].aborted) => abortControllerRef = RefTo(c)
  /\ Cardinality({c \in DOMAIN calls :
                    calls[c].pc \in {"fetch", "json"} /\ ~calls[c].aborted}) <= 1

\* C11 witness: two calls have a request in flight, the earlier one with an
\* aborted signal, the one abortControllerRef holds with a live signal.
C11_Witness_SupersededRequestAborted ==
  \E c, b \in DOMAIN calls :
    /\ calls[c].pc = "fetch" /\ calls[c].aborted
    /\ calls[b].pc = "fetch" /\ ~calls[b].aborted
    /\ abortControllerRef = RefTo(b)

\* C16: a call whose controller has been aborted (a newer executeAPI call
\* has started, or reset() was called) never commits: it does not end by
\* writing its result into lastResult and returning it.
C16_StaleResultsDiscarded ==
  (ended.pc = "done" /\ ended.aborted)
    => (ended.outcome = "raised" /\ lastResult # ended.value)

\* C34: while the call abortControllerRef holds (the most recently started
\* one, no reset() since) is pending, isLoading is true, whatever has become
\* of the calls it superseded.  (Calls whose callbacks have all returned
\* normally.)
C34_LoadingWhileLatestCallPending ==
  \A c \in DOMAIN calls :
    (Pending(c) /\ abortControllerRef = RefTo(c) /\ ~calls[c].threw) => isLoading

\* C37: a call that ends by raising (its callbacks having returned
\* normally) leaves lastResult as it was; the start of a call sets lastError
\* to null and leaves lastResult; lastResult changes only to null or in the
\* step of a call that has read its response body; and when the call
\* started last (the one abortControllerRef holds) ends, lastError is
\* non-null only if that call raised an error other than the cancellation
\* error.
C37_LastResultAndLastErrorHistory ==
  [][/\ (ended'.pc = "done" /\ ended'.outcome = "raised" /\ ~ended'.threw)
          => lastResult' = lastResult
     /\ (\E c \in DOMAIN calls : ~Pending(c) /\ Pending(c)')
          => (lastError' = Null /\ lastResult' = lastResult)
     /\ lastResult' # lastResult
          => (lastResult' = Null \/ \E c \in DOMAIN calls : calls[c].pc = "json")
     /\ (\E c \in DOMAIN calls :
           abortControllerRef = RefTo(c) /\ ~Pending(c)' /\ lastError' # Null)
          => (ended'.outcome = "raised" /\ ended'.value # AbortError)]_vars

====
